---------------------------- MODULE Spec2Model ----------------------------
(***************************************************************************)
(* A model of wuxiancai/stock.                                             *)
(*                                                                         *)
(*   Legacy platform (Flask, src/app.py, src/data_sync.py)                 *)
(*     - the full-account sync endpoint and its background sweep thread    *)
(*     - the favorites endpoint over the favorite_stocks table             *)
(*     - DataSync.save_daily_data over the daily_data table                *)
(*     - the progress stream of the full sync                              *)
(*     - the simplified nine-turn detector, the integrity check, the       *)
(*       guarded vendor call, the incremental sync and the scheduler       *)
(*   Async platform (FastAPI, src/app/)                                    *)
(*     - RateLimitCache / RateLimitMiddleware over the cache store         *)
(*     - the WebSocket ConnectionManager and the DataBroadcaster loops     *)
(*     - the nine-turn Setup detector of the technical analysis engine     *)
(*                                                                         *)
(* Each subsystem has its own variables, initial predicate and next-state  *)
(* relation; a subsystem's specification leaves the others' variables      *)
(* unchanged.                                                              *)
(***************************************************************************)
EXTENDS Integers, Sequences, FiniteSets, TLC

VARIABLES
    \* ---- Async middleware chain (src/app/middleware.py) ----
    chain,              \* setup_middleware, then one request through the stack
    \* ---- Async rate-limit dispatch around call_next (src/app/middleware.py) ----
    mw,                 \* each request's pass through RateLimitMiddleware.dispatch
    \* ---- Nine-turn Countdown (src/app/technical_analysis.py) ----
    td_cd,              \* one call of NineTurnSequential.calculate_td_countdown
    \* ---- Async nine-turn signal refresh (src/app/services.py) ----
    nts,                \* one security's turn in update_nine_turn_signals
    \* ---- Legacy incremental sync (src/data_sync.py) ----
    incr,               \* one call of DataSync.sync_stock_data
    \* ---- Legacy guarded vendor call (src/data_sync.py) ----
    retry,              \* one call of DataSync._api_call_with_retry
    \* ---- Legacy scheduler (src/scheduler.py) ----
    sched,              \* _scheduler_instance, the schedule module's jobs, the loop threads
    \* ---- Async WebSocket service: the endpoint's replies ----
    ws_reply,           \* what the handling of the last control message sent
    \* ---- Legacy integrity check (src/data_sync.py) ----
    integrity,          \* one call of DataSync.check_data_integrity
    \* ---- Legacy simplified nine-turn (src/app.py) ----
    td_seq,             \* one call of calculate_td_sequential
    \* ---- Async technical analysis (src/app/technical_analysis.py) ----
    td_setup,           \* one call of NineTurnSequential.calculate_td_setup
    \* ---- Legacy full sync (src/app.py) ----
    sync_progress,      \* the module-level sync_progress dict
    syncReq,            \* POST /api/sync_all_a_stock_data handler threads
    sweep,              \* sync_all_a_stock_data_background threads
    sse,                \* the generator of a GET /api/sync_progress response
    \* ---- Legacy favorites (src/app.py) ----
    favorite_stocks,    \* the committed rows of table favorite_stocks
    fav_seq,            \* the table's AUTOINCREMENT sequence
    favReq,             \* POST /api/favorites/add handler threads
    \* ---- Legacy daily quotes (src/data_sync.py) ----
    daily_data,         \* the committed rows of table daily_data
    daily_seq,          \* the table's AUTOINCREMENT sequence
    daily_log,          \* what the sync runs so far were given, per (code, date)
    \* ---- Async rate limiting (src/app/cache.py, src/app/middleware.py) ----
    rl_limit,           \* settings.rate_limit_calls, the configured ceiling
    rl_store,           \* the cache store's rate-limit keys: value and expiry
    rlReq,              \* requests inside RateLimitMiddleware.dispatch
    rl_hist,            \* per key: requests and responses of the current window
    \* ---- Async WebSocket service (src/app/websocket.py) ----
    active_connections, \* ConnectionManager.active_connections (its ids)
    subscriptions,      \* ConnectionManager.subscriptions: id -> topic strings
    stock_subscribers,  \* ConnectionManager.stock_subscribers: ts_code -> ids
    market_subscribers, \* ConnectionManager.market_subscribers
    nine_turn_subscribers, \* ConnectionManager.nine_turn_subscribers
    ws_conn,            \* each connection's socket and endpoint coroutine
    rt,                 \* DataBroadcaster._broadcast_realtime_quotes
    ws_codes            \* the securities the clients of this run ask for

syncVars == <<sync_progress, syncReq, sweep>>
sseVars == <<sse>>
favVars == <<favorite_stocks, fav_seq, favReq>>
dailyVars == <<daily_data, daily_seq, daily_log>>
rateVars == <<rl_limit, rl_store, rlReq, rl_hist>>
regVars == <<active_connections, subscriptions, stock_subscribers,
             market_subscribers, nine_turn_subscribers>>
wsVars == <<regVars, ws_conn, rt, ws_codes>>
chainVars == <<chain>>
mwVars == <<mw>>
cdVars == <<td_cd>>
ntsVars == <<nts>>
incrVars == <<incr>>
retryVars == <<retry>>
schedVars == <<sched>>
wsReplyVars == <<ws_reply>>
integrityVars == <<integrity>>
tdSeqVars == <<td_seq>>
taVars == <<td_setup>>

(***************************************************************************)
(*                    LEGACY FULL SYNC  (src/app.py)                       *)
(***************************************************************************)

\* Number of POST /api/sync_all_a_stock_data requests of a run.
MaxSyncReq == 2
\* Longest start_date..end_date range of a request, in days.
MaxDates == 1

SyncReqs == 1..MaxSyncReq

\* The JSON body of a request: no dates given, a range that parses
\* (ndays days long, 0 when start_date > end_date), or dates that
\* datetime.strptime rejects.
SyncBodies ==
    {[given |-> FALSE, valid |-> TRUE, ndays |-> 1]}
    \cup {[given |-> TRUE, valid |-> TRUE, ndays |-> n] : n \in 0..MaxDates}
    \cup {[given |-> TRUE, valid |-> FALSE, ndays |-> 0]}

\* sync_progress as created at import time. details is kept as the set of
\* sweeps whose lines are in the list; start_time, message and results hold
\* the sweep that wrote them (0: None / key absent).
SyncProgressInit ==
    [is_syncing |-> FALSE, current_step |-> "", progress |-> 0,
     total_steps |-> 7, details |-> {}, start_time |-> 0,
     success |-> "unset", message |-> 0, results |-> 0]

SyncInit ==
    /\ sync_progress = SyncProgressInit
    /\ syncReq = [r \in SyncReqs |-> [pc |-> "new", status |-> 0,
                                      body |-> [given |-> FALSE, valid |-> TRUE, ndays |-> 1]]]
    /\ sweep = [r \in SyncReqs |-> [pc |-> "none", i |-> 0, nd |-> 0]]

\* update_sync_progress(step, progress, details) called by sweep t.
update_sync_progress(sp, t, step, progress) ==
    [sp EXCEPT !.current_step = step,
               !.progress = progress,
               !.details = @ \cup {t}]

\* The guard of the endpoint: the request is refused while is_syncing.
SyncRefusedMut(sp) == FALSE
SyncRefused(sp) == sp.is_syncing

\* sync_all_a_stock_data, first half: read the flag; 400 when it is set.
SyncCheck(r) ==
    /\ syncReq[r].pc = "new"
    /\ \E b \in SyncBodies :
         IF SyncRefused(sync_progress)
         THEN syncReq' = [syncReq EXCEPT ![r] = [pc |-> "done", status |-> 400, body |-> b]]
         ELSE syncReq' = [syncReq EXCEPT ![r] = [pc |-> "checked", status |-> 0, body |-> b]]
    /\ UNCHANGED <<sync_progress, sweep>>

\* sync_all_a_stock_data, second half: start the daemon thread, answer 200.
SyncStart(r) ==
    /\ syncReq[r].pc = "checked"
    /\ syncReq' = [syncReq EXCEPT ![r].pc = "done", ![r].status = 200]
    /\ sweep' = [sweep EXCEPT ![r].pc = "spawned"]
    /\ UNCHANGED sync_progress

\* The thread's first statements: the flag, start_time, progress and details
\* are written, then update_sync_progress('检查数据库', 0, ...).
BgBegin(t) ==
    /\ sweep[t].pc = "spawned"
    /\ sync_progress' =
         update_sync_progress(
            [sync_progress EXCEPT !.is_syncing = TRUE, !.start_time = t,
                                  !.progress = 0, !.details = {}],
            t, "check_db", 0)
    /\ sweep' = [sweep EXCEPT ![t].pc = "dates"]
    /\ UNCHANGED syncReq

\* The date range: the days of the given range, or the latest trade date.
\* total_steps is set from the number of dates.
BgDates(t) ==
    /\ sweep[t].pc = "dates"
    /\ syncReq[t].body.valid
    /\ LET nd == syncReq[t].body.ndays IN
       /\ sync_progress' =
            [update_sync_progress(sync_progress, t, "dates", 5)
               EXCEPT !.total_steps = nd * 7 + 5]
       /\ sweep' = [sweep EXCEPT ![t].pc = IF nd = 0 THEN "integrity" ELSE "daily",
                                 ![t].i = 0, ![t].nd = nd]
    /\ UNCHANGED syncReq

\* One of the three per-date stages: daily quotes, money flow, daily basics.
BgStage(t) ==
    /\ sweep[t].pc \in {"daily", "moneyflow", "basic"}
    /\ LET base == 5 + sweep[t].i * 7
           off == CASE sweep[t].pc = "daily" -> 1
                    [] sweep[t].pc = "moneyflow" -> 3
                    [] OTHER -> 4
       IN sync_progress' = update_sync_progress(sync_progress, t, sweep[t].pc, base + off)
    /\ sweep' = [sweep EXCEPT
                   ![t].pc = CASE sweep[t].pc = "daily" -> "moneyflow"
                               [] sweep[t].pc = "moneyflow" -> "basic"
                               [] sweep[t].i + 1 < sweep[t].nd -> "daily"
                               [] OTHER -> "integrity",
                   ![t].i = IF sweep[t].pc = "basic" THEN @ + 1 ELSE @]
    /\ UNCHANGED syncReq

\* update_sync_progress('检查数据完整性', total_steps, ...) and the integrity check.
BgIntegrity(t) ==
    /\ sweep[t].pc = "integrity"
    /\ sync_progress' = update_sync_progress(sync_progress, t, "integrity",
                                            sync_progress.total_steps)
    /\ sweep' = [sweep EXCEPT ![t].pc = "complete"]
    /\ UNCHANGED syncReq

\* The success tail: '同步完成', success, message, results, integrity report.
BgComplete(t) ==
    /\ sweep[t].pc = "complete"
    /\ sync_progress' =
         [update_sync_progress(sync_progress, t, "complete", sync_progress.total_steps)
            EXCEPT !.success = "true", !.message = t, !.results = t]
    /\ sweep' = [sweep EXCEPT ![t].pc = "finally"]
    /\ UNCHANGED syncReq

\* The except branch: an exception raised in the try body (init_database or
\* the MAX(trade_date) query fails, the dates do not parse, the integrity
\* check raises).
BgFail(t) ==
    /\ sweep[t].pc \in {"dates", "integrity"}
    /\ sync_progress' =
         update_sync_progress(
            [sync_progress EXCEPT !.success = "false", !.message = t],
            t, "failed", sync_progress.progress)
    /\ sweep' = [sweep EXCEPT ![t].pc = "finally"]
    /\ UNCHANGED syncReq

\* The finally branch.
BgFinally(t) ==
    /\ sweep[t].pc = "finally"
    /\ sync_progress' = [sync_progress EXCEPT !.is_syncing = FALSE]
    /\ sweep' = [sweep EXCEPT ![t].pc = "done"]
    /\ UNCHANGED syncReq

SyncNext ==
    \E r \in SyncReqs :
       \/ SyncCheck(r)
       \/ SyncStart(r)
       \/ BgBegin(r)
       \/ BgDates(r)
       \/ BgStage(r)
       \/ BgIntegrity(r)
       \/ BgComplete(r)
       \/ BgFail(r)
       \/ BgFinally(r)

\* A sweep exists from the moment its request was accepted (the thread is
\* started) until its finally branch has run.
SweepRunning(t) == sweep[t].pc \notin {"none", "done"}

(***************************************************************************)
(*              LEGACY PROGRESS STREAM  (src/app.py)                       *)
(***************************************************************************)

\* A sweep at work: past its first statement (is_syncing = True), its
\* finally branch not yet run.
SweepWorking(t) == sweep[t].pc \notin {"none", "spawned", "done"}

\* json.dumps(sync_progress), as far as the stream's reader is concerned.
Snapshot(sp) ==
    [is_syncing |-> sp.is_syncing, current_step |-> sp.current_step,
     progress |-> sp.progress]
NoSnapshot == [is_syncing |-> FALSE, current_step |-> "none", progress |-> -1]

\* No request yet.  Afterwards: pc is the generator's position, data the
\* snapshot it yielded last, emitted the is_syncing values of the snapshots
\* it has yielded, cut the sweeps that were at work when it ended.
SseInit == sse = [pc |-> "none", data |-> NoSnapshot, emitted |-> {}, cut |-> {}]

\* GET /api/sync_progress: the response is built around generate().
SseOpen ==
    /\ sse.pc = "none"
    /\ sse' = [sse EXCEPT !.pc = "yield"]

\* generate(): serialize sync_progress and yield the event; then sleep(1).
SseYield ==
    /\ sse.pc = "yield"
    /\ sse' = [sse EXCEPT !.pc = "sleep", !.data = Snapshot(sync_progress),
                          !.emitted = @ \cup {sync_progress.is_syncing}]

\* generate(): after the sleep, break when is_syncing is false.
SseBreaks(sp) == ~sp.is_syncing

SseWake ==
    /\ sse.pc = "sleep"
    /\ sse' = IF SseBreaks(sync_progress)
              THEN [sse EXCEPT !.pc = "ended",
                               !.cut = {t \in SyncReqs : SweepWorking(t)}]
              ELSE [sse EXCEPT !.pc = "yield"]

SseNext == SseOpen \/ SseYield \/ SseWake

\* The full sync and a reader of its progress stream, side by side.
SyncSseNext ==
    \/ SyncNext /\ UNCHANGED sseVars
    \/ SseNext /\ UNCHANGED syncVars

(***************************************************************************)
(*                    LEGACY FAVORITES  (src/app.py)                       *)
(***************************************************************************)

\* Number of POST /api/favorites/add requests of a run.
MaxFavReq == 3

FavReqs == 1..MaxFavReq

\* The rows of stock_basic_info: ts_code -> name.
StockBasicInfo == [c \in {"000001.SZ", "600000.SH"} |->
                     IF c = "000001.SZ" THEN "PingAn" ELSE "PuFa"]

\* Request bodies: no JSON body, a body without ts_code (""), a listed
\* security, a security stock_basic_info does not hold.
FavBodies ==
    {[json |-> FALSE, ts_code |-> ""]}
    \cup {[json |-> TRUE, ts_code |-> c] : c \in {"", "000001.SZ", "600000.SH", "999999.XX"}}

FavInit ==
    /\ favorite_stocks = {}
    /\ fav_seq = 0
    /\ favReq = [r \in FavReqs |->
                   [pc |-> "new", body |-> [json |-> FALSE, ts_code |-> ""],
                    status |-> 0, message |-> "",
                    present |-> FALSE, overlap |-> FALSE]]

FavInFlight(r) == favReq[r].pc \notin {"new", "done"}

FavRespond(r, status, message) ==
    favReq' = [favReq EXCEPT ![r].pc = "done", ![r].status = status,
                             ![r].message = message]

\* SELECT name FROM stock_basic_info WHERE ts_code = ?
SelectStockInfo(ts_code) == ts_code \in DOMAIN StockBasicInfo

\* SELECT id FROM favorite_stocks WHERE ts_code = ?
SelectExistingMut(table, ts_code) == FALSE
SelectExisting(table, ts_code) == \E row \in table : row.ts_code = ts_code

\* UNIQUE(ts_code) of CREATE TABLE favorite_stocks: an INSERT of a code the
\* table holds raises sqlite3.IntegrityError.
FavUniqueViolatedMut(table, ts_code) == FALSE
FavUniqueViolated(table, ts_code) == \E row \in table : row.ts_code = ts_code

\* request.get_json(), data.get('ts_code') and the empty-code check. The
\* request arrives here: present records whether its code was saved at that
\* moment, overlap whether another add of the same code is being handled.
FavValidate(r) ==
    /\ favReq[r].pc = "new"
    /\ \E b \in FavBodies :
         LET others == {q \in FavReqs \ {r} :
                          FavInFlight(q) /\ favReq[q].body.ts_code = b.ts_code}
             arrived == [favReq[r] EXCEPT
                           !.body = b,
                           !.present = \E row \in favorite_stocks :
                                          row.ts_code = b.ts_code,
                           !.overlap = others # {}]
         IN  favReq' =
               [q \in FavReqs |->
                  IF q = r THEN
                     IF ~b.json
                     THEN [arrived EXCEPT !.pc = "done", !.status = 500,
                                          !.message = "add_failed"]
                     ELSE IF b.ts_code = ""
                     THEN [arrived EXCEPT !.pc = "done", !.status = 400,
                                          !.message = "empty_code"]
                     ELSE [arrived EXCEPT !.pc = "lookup"]
                  ELSE IF q \in others /\ b.json /\ b.ts_code # ""
                     THEN [favReq[q] EXCEPT !.overlap = TRUE]
                     ELSE favReq[q]]
    /\ UNCHANGED <<favorite_stocks, fav_seq>>

\* The stock_basic_info lookup: 404 for a security that is not listed.
FavLookup(r) ==
    /\ favReq[r].pc = "lookup"
    /\ IF SelectStockInfo(favReq[r].body.ts_code)
       THEN favReq' = [favReq EXCEPT ![r].pc = "exists"]
       ELSE FavRespond(r, 404, "not_found")
    /\ UNCHANGED <<favorite_stocks, fav_seq>>

\* The already-saved check: 409 when the code has a row.
FavExists(r) ==
    /\ favReq[r].pc = "exists"
    /\ IF SelectExisting(favorite_stocks, favReq[r].body.ts_code)
       THEN FavRespond(r, 409, "already_saved")
       ELSE favReq' = [favReq EXCEPT ![r].pc = "insert"]
    /\ UNCHANGED <<favorite_stocks, fav_seq>>

\* INSERT and commit; an sqlite3 error is caught by the handler's
\* except Exception and answered 500.
FavInsert(r) ==
    /\ favReq[r].pc = "insert"
    /\ LET c == favReq[r].body.ts_code IN
       IF FavUniqueViolated(favorite_stocks, c)
       THEN /\ FavRespond(r, 500, "add_failed")
            /\ UNCHANGED <<favorite_stocks, fav_seq>>
       ELSE /\ favorite_stocks' = favorite_stocks \cup
                   {[id |-> fav_seq + 1, ts_code |-> c, name |-> StockBasicInfo[c]]}
            /\ fav_seq' = fav_seq + 1
            /\ FavRespond(r, 200, "added")

FavNext ==
    \E r \in FavReqs :
       \/ FavValidate(r)
       \/ FavLookup(r)
       \/ FavExists(r)
       \/ FavInsert(r)

(***************************************************************************)
(*                 LEGACY DAILY QUOTES  (src/data_sync.py)                 *)
(***************************************************************************)

\* Number of save_daily_data runs of a behaviour.
MaxRuns == 2
\* Longest vendor frame (rows) handed to one run.
MaxDfLen == 2

DailyCodes == {"000001.SZ", "600000.SH"}
DailyDates == {"20240102", "20240103"}
DailyCloses == {10, 11}
\* A vendor row; ts_code "NULL" stands for a missing code (None / NaN).
DfRows == [ts_code : DailyCodes, trade_date : DailyDates, close : DailyCloses]
NullRow == [ts_code |-> "NULL", trade_date |-> "20240102", close |-> 10]
DailyKeys == DailyCodes \X DailyDates

RECURSIVE SeqsUpTo(_, _)
SeqsUpTo(S, n) ==
    IF n = 0 THEN {<<>>}
    ELSE LET shorter == SeqsUpTo(S, n - 1)
         IN  shorter \cup {Append(q, x) : q \in {z \in shorter : Len(z) = n - 1}, x \in S}

\* The frames a vendor call returns: pro.daily(trade_date=d) gives one row
\* per security for one date, pro.daily(ts_code=c, ...) one row per date for
\* one security; a frame may carry a row without a code in first place.
Frames ==
    {df \in SeqsUpTo(DfRows \cup {NullRow}, MaxDfLen) :
        /\ \A i \in 2..Len(df) : df[i] # NullRow
        /\ \A i, j \in 1..Len(df) :
              (i # j /\ df[i] # NullRow /\ df[j] # NullRow) =>
                 (df[i].ts_code # df[j].ts_code \/ df[i].trade_date # df[j].trade_date)
        /\ \/ \A i, j \in 1..Len(df) :
                 (df[i] # NullRow /\ df[j] # NullRow) => df[i].trade_date = df[j].trade_date
           \/ \A i, j \in 1..Len(df) :
                 (df[i] # NullRow /\ df[j] # NullRow) => df[i].ts_code = df[j].ts_code}

\* daily_log: the number of runs so far and, per (code, date), how many runs
\* carried a row for it, the close the latest of them carried (last) and the
\* one before (prev).
DailyInit ==
    /\ daily_data = {}
    /\ daily_seq = 0
    /\ daily_log = [n |-> 0,
                    key |-> [k \in DailyKeys |-> [runs |-> 0, last |-> 0, prev |-> 0]]]

\* NOT NULL of ts_code: the INSERT raises, save_daily_data logs and skips the row.
InsertRaises(row) == row.ts_code = "NULL"

\* INSERT OR REPLACE INTO daily_data under UNIQUE(ts_code, trade_date): the
\* row of the same (ts_code, trade_date) is deleted and the new row inserted
\* under the next AUTOINCREMENT id.
InsertOrReplaceMut(table, seq, row) ==
    IF \E old \in table : old.ts_code = row.ts_code /\ old.trade_date = row.trade_date
    THEN table
    ELSE table \cup {[id |-> seq + 1, ts_code |-> row.ts_code,
                      trade_date |-> row.trade_date, close |-> row.close]}
InsertOrReplace(table, seq, row) ==
    {old \in table : ~(old.ts_code = row.ts_code /\ old.trade_date = row.trade_date)}
    \cup {[id |-> seq + 1, ts_code |-> row.ts_code,
           trade_date |-> row.trade_date, close |-> row.close]}

\* The loop of save_daily_data over df.iterrows(), from row i on.
RECURSIVE SaveRows(_, _, _, _, _)
SaveRows(table, seq, saved, df, i) ==
    IF i > Len(df) THEN [table |-> table, seq |-> seq, saved_count |-> saved]
    ELSE IF InsertRaises(df[i])
         THEN SaveRows(table, seq, saved, df, i + 1)
         ELSE SaveRows(InsertOrReplace(table, seq, df[i]), seq + 1, saved + 1, df, i + 1)

\* save_daily_data(df): 0 for an empty frame, else the loop and the commit.
save_daily_data(table, seq, df) ==
    IF df = <<>> THEN [table |-> table, seq |-> seq, saved_count |-> 0]
    ELSE SaveRows(table, seq, 0, df, 1)

\* What a frame holds for a key: the close of its last row of that key, 0 if none.
RECURSIVE FrameValue(_, _, _)
FrameValue(df, k, i) ==
    IF i = 0 THEN 0
    ELSE IF df[i].ts_code = k[1] /\ df[i].trade_date = k[2] THEN df[i].close
    ELSE FrameValue(df, k, i - 1)

\* One daily-quote sync run: the vendor frame is saved.
SaveDailyData(df) ==
    /\ daily_log.n < MaxRuns
    /\ LET r == save_daily_data(daily_data, daily_seq, df) IN
       /\ daily_data' = r.table
       /\ daily_seq' = r.seq
    /\ daily_log' =
         [n |-> daily_log.n + 1,
          key |-> [k \in DailyKeys |->
                     LET v == FrameValue(df, k, Len(df)) IN
                     IF v = 0 THEN daily_log.key[k]
                     ELSE [runs |-> daily_log.key[k].runs + 1, last |-> v,
                           prev |-> daily_log.key[k].last]]]

DailyNext == \E df \in Frames : SaveDailyData(df)

(***************************************************************************)
(*        ASYNC RATE LIMITING  (src/app/cache.py, src/app/middleware.py)   *)
(***************************************************************************)

\* settings.rate_limit_calls and settings.rate_limit_period.
RateLimitCalls == 100
RateLimitPeriod == 60
\* Largest ceiling configured when requests are handled concurrently.
MaxCeiling == 2
\* Requests of one client beyond the ceiling within one window.
MaxOver == 1
\* Requests inside the middleware at the same time.
MaxRlReq == 2

RlSlots == 1..MaxRlReq

\* Request paths, by segment; exclude_paths as passed by setup_middleware.
ExcludePaths == {<<"health">>, <<"docs">>, <<"redoc">>, <<"openapi.json">>, <<"ws">>}
IsPrefix(p, q) == Len(p) <= Len(q) /\ SubSeq(q, 1, Len(p)) = p

\* The requests: path, the X-Forwarded-For entries, X-Real-IP ("" absent),
\* the socket peer ("" when request.client is None).
RlRequests ==
    {[path |-> <<"api", "stocks">>, fwd |-> <<"10.0.0.1", "10.9.9.9">>, real |-> "", host |-> "10.0.0.2"],
     [path |-> <<"api", "stocks">>, fwd |-> <<>>, real |-> "10.0.0.2", host |-> "10.0.0.1"],
     [path |-> <<"api", "stocks">>, fwd |-> <<>>, real |-> "", host |-> "10.0.0.1"],
     [path |-> <<"health">>, fwd |-> <<>>, real |-> "", host |-> "10.0.0.1"]}

\* RateLimitMiddleware._should_rate_limit
ShouldRateLimit(req) == ~\E e \in ExcludePaths : IsPrefix(e, req.path)

\* RateLimitMiddleware._get_client_ip
GetClientIp(req) ==
    IF req.fwd # <<>> THEN req.fwd[1]
    ELSE IF req.real # "" THEN req.real
    ELSE IF req.host # "" THEN req.host
    ELSE "unknown"

\* RateLimitMiddleware._get_rate_limit_key with per_ip = True
GetRateLimitKeyMut(req) == <<"rate_limit", "global">>
GetRateLimitKey(req) == <<"rate_limit", "ip", GetClientIp(req)>>

RlKeys == {GetRateLimitKey(req) : req \in RlRequests}

\* A key of the store: val 0 is a missing key; ttl tells whether it expires.
NoKey == [val |-> 0, ttl |-> FALSE]
NoResponse == [status |-> 0, retry_after |-> 0, reset |-> ""]
NoHist == [seen |-> 0, allowed |-> 0, last |-> NoResponse]

\* A request slot nobody is in.
Idle == [pc |-> "idle", key |-> <<>>, op |-> ""]

RateInitCommon ==
    /\ rl_store = [k \in RlKeys |-> NoKey]
    /\ rlReq = [s \in RlSlots |-> Idle]
    /\ rl_hist = [k \in RlKeys |-> NoHist]

\* The default configuration.
RateInit == rl_limit = RateLimitCalls /\ RateInitCommon
\* A configured ceiling.
RateInitCfg == rl_limit \in 1..MaxCeiling /\ RateInitCommon

\* The cache store's commands.
RedisGet(store, k) == store[k].val
RedisSetex(store, k, v) == [store EXCEPT ![k] = [val |-> v, ttl |-> TRUE]]
RedisIncr(store, k) == [store EXCEPT ![k].val = @ + 1]
RedisTtl(store, k) == IF store[k].ttl THEN "ttl" ELSE "none"

\* RateLimitCache.check_rate_limit after its GET returned current (0: None):
\* the command it issues next, "reject" when it returns False without one.
CheckRateLimitOpMut(current, limit) ==
    IF current = 0 THEN "setex"
    ELSE IF current > limit THEN "reject"
    ELSE "incr"
CheckRateLimitOp(current, limit) ==
    IF current = 0 THEN "setex"
    ELSE IF current >= limit THEN "reject"
    ELSE "incr"

ApplyOp(store, k, op) ==
    CASE op = "setex" -> RedisSetex(store, k, 1)
      [] op = "incr" -> RedisIncr(store, k)
      [] OTHER -> store

\* RateLimitCache.get_reset_time
GetResetTime(store, k) == IF RedisTtl(store, k) = "ttl" THEN "ttl" ELSE "window"

\* The HTTPException raised for a limited request, with its headers.
TooManyRequests(store, k) ==
    [status |-> 429, retry_after |-> RateLimitPeriod, reset |-> GetResetTime(store, k)]
\* The downstream response, passed on with the X-RateLimit-* headers.
Passed == [status |-> 200, retry_after |-> 0, reset |-> ""]

Record(hist, k, resp) ==
    [hist EXCEPT ![k] = [seen |-> @.seen + 1,
                         allowed |-> @.allowed + (IF resp.status = 429 THEN 0 ELSE 1),
                         last |-> resp]]

\* The key's TTL runs out: the store drops the key; a new window begins.
RlExpire(k) ==
    /\ rl_store[k].ttl
    /\ rl_store' = [rl_store EXCEPT ![k] = NoKey]
    /\ rl_hist' = [rl_hist EXCEPT ![k] = NoHist]
    /\ UNCHANGED <<rl_limit, rlReq>>

\* dispatch of one request with no other request or expiry in between.
RateRequest(req) ==
    /\ UNCHANGED <<rl_limit, rlReq>>
    /\ IF ~ShouldRateLimit(req)
       THEN UNCHANGED <<rl_store, rl_hist>>
       ELSE LET k == GetRateLimitKey(req)
                op == CheckRateLimitOp(RedisGet(rl_store, k), rl_limit)
                store == ApplyOp(rl_store, k, op)
            IN  /\ rl_hist[k].seen < rl_limit + MaxOver
                /\ rl_store' = store
                /\ rl_hist' = Record(rl_hist, k,
                                     IF op = "reject" THEN TooManyRequests(store, k)
                                     ELSE Passed)

RateSeqNext ==
    \/ \E req \in RlRequests : RateRequest(req)
    \/ \E k \in RlKeys : RlExpire(k)

\* ---- the same dispatch, one cache round-trip per step ----

\* A request enters dispatch; an excluded path goes straight to call_next.
RlArrive(s, req) ==
    /\ rlReq[s].pc = "idle"
    /\ IF ~ShouldRateLimit(req)
       THEN UNCHANGED rlReq
       ELSE /\ rl_hist[GetRateLimitKey(req)].seen
                 + Cardinality({q \in RlSlots : rlReq[q].key = GetRateLimitKey(req)})
                 < rl_limit + MaxOver
            /\ rlReq' = [rlReq EXCEPT ![s] = [pc |-> "get", key |-> GetRateLimitKey(req),
                                              op |-> ""]]
    /\ UNCHANGED <<rl_limit, rl_store, rl_hist>>

\* check_rate_limit: current = await redis_client.get(key), and the branch
\* taken on it.
RlGet(s) ==
    /\ rlReq[s].pc = "get"
    /\ rlReq' = [rlReq EXCEPT
                   ![s].pc = "apply",
                   ![s].op = CheckRateLimitOp(RedisGet(rl_store, rlReq[s].key), rl_limit)]
    /\ UNCHANGED <<rl_limit, rl_store, rl_hist>>

\* check_rate_limit: the setex or incr it awaits next, or return False.
RlApply(s) ==
    /\ rlReq[s].pc = "apply"
    /\ rl_store' = ApplyOp(rl_store, rlReq[s].key, rlReq[s].op)
    /\ rlReq' = [rlReq EXCEPT ![s].pc = IF rlReq[s].op = "reject" THEN "reset" ELSE "usage",
                              ![s].op = ""]
    /\ UNCHANGED <<rl_limit, rl_hist>>

\* dispatch, not allowed: get_reset_time, then the 429.
RlReject(s) ==
    /\ rlReq[s].pc = "reset"
    /\ rl_hist' = Record(rl_hist, rlReq[s].key, TooManyRequests(rl_store, rlReq[s].key))
    /\ rlReq' = [rlReq EXCEPT ![s] = Idle]
    /\ UNCHANGED <<rl_limit, rl_store>>

\* dispatch, allowed: get_current_usage, call_next, the response headers.
RlPass(s) ==
    /\ rlReq[s].pc = "usage"
    /\ rl_hist' = Record(rl_hist, rlReq[s].key, Passed)
    /\ rlReq' = [rlReq EXCEPT ![s] = Idle]
    /\ UNCHANGED <<rl_limit, rl_store>>

RateNext ==
    \/ \E s \in RlSlots, req \in RlRequests : RlArrive(s, req)
    \/ \E s \in RlSlots : RlGet(s) \/ RlApply(s) \/ RlReject(s) \/ RlPass(s)
    \/ \E k \in RlKeys : RlExpire(k)

(***************************************************************************)
(*              ASYNC WEBSOCKET SERVICE  (src/app/websocket.py)            *)
(***************************************************************************)

\* Connections accepted in a run; connection ids (uuid4) are never reused.
MaxConn == 2

Conns == 1..MaxConn

\* The ts_code values of subscription messages: JSON strings, and a JSON
\* number (v is its str()).
StrCodes == {[t |-> "str", v |-> "000001.SZ"], [t |-> "str", v |-> "000002.SZ"]}
IntCodes == {[t |-> "int", v |-> "600000"]}
WsCodes == StrCodes \cup IntCodes
CodeA == [t |-> "str", v |-> "000001.SZ"]
CodeB == [t |-> "str", v |-> "000002.SZ"]

\* Distinct securities asked for in one run.
MaxCodes == 2
CodeSets == {S \in SUBSET WsCodes :
                Cardinality(S) = MaxCodes /\ CodeA \in S}

\* f"stock:{ts_code}", "market", "nine_turn", as the parts of the string.
StockTopic(k) == <<"stock", k.v>>
MarketTopic == <<"market">>
NineTurnTopic == <<"nine_turn">>
\* subscription[6:] of a "stock:" subscription: always a string.
TopicCode(topic) == [t |-> "str", v |-> topic[2]]

\* id in stock_subscribers[ts_code], of a dict `stock`.
StockMember(stock, c, k) == k \in DOMAIN stock /\ c \in stock[k]

\* manager.disconnect has run for the connection.
Disconnected(c) == ws_conn[c] # "unborn" /\ c \notin active_connections

\* The registry as one value.
Reg == [active |-> active_connections, subs |-> subscriptions,
        stock |-> stock_subscribers, market |-> market_subscribers,
        nine |-> nine_turn_subscribers]

SetReg(R) ==
    /\ active_connections' = R.active
    /\ subscriptions' = R.subs
    /\ stock_subscribers' = R.stock
    /\ market_subscribers' = R.market
    /\ nine_turn_subscribers' = R.nine

\* A dict without key k / with key k bound to v.
DictDel(d, k) == [x \in DOMAIN d \ {k} |-> d[x]]
DictSet(d, k, v) == [x \in DOMAIN d \cup {k} |-> IF x = k THEN v ELSE d[x]]

\* stock_subscribers[ts_code].discard(id), and del of the set once empty.
StockDiscard(stock, k, c) ==
    IF k \notin DOMAIN stock THEN stock
    ELSE IF stock[k] \ {c} = {} THEN DictDel(stock, k)
    ELSE DictSet(stock, k, stock[k] \ {c})

\* ConnectionManager._cleanup_subscriptions: the loop over the connection's
\* subscription strings, from the set `todo` of them.
RECURSIVE CleanupLoop(_, _, _)
CleanupLoop(R, c, todo) ==
    IF todo = {} THEN R
    ELSE LET sub == CHOOSE x \in todo : TRUE
             R1 == IF sub[1] = "stock"
                   THEN [R EXCEPT !.stock = StockDiscard(@, TopicCode(sub), c)]
                   ELSE IF sub = MarketTopic THEN [R EXCEPT !.market = @ \ {c}]
                   ELSE IF sub = NineTurnTopic THEN [R EXCEPT !.nine = @ \ {c}]
                   ELSE R
         IN  CleanupLoop(R1, c, todo \ {sub})

cleanup_subscriptions(R, c) ==
    IF c \notin DOMAIN R.subs THEN R ELSE CleanupLoop(R, c, R.subs[c])

\* ConnectionManager.disconnect
disconnect(R, c) ==
    IF c \in R.active
    THEN LET R1 == cleanup_subscriptions(R, c)
         IN  [R1 EXCEPT !.active = @ \ {c}, !.subs = DictDel(@, c)]
    ELSE R

\* A message on the wire.
Msg(c, type, action, target, code) ==
    [to |-> c, type |-> type, action |-> action, target |-> target, code |-> code]
NoCode == [t |-> "", v |-> ""]

\* websocket.send_text succeeds on a socket whose peer is there.
PeerOpen(c) == ws_conn[c] = "open"

\* ConnectionManager.send_personal_message: the registry afterwards and what
\* was sent; a failed send disconnects the connection.
send_personal_message(R, c, msg) ==
    IF c \in R.active
    THEN IF PeerOpen(c) THEN [reg |-> R, wire |-> {msg}]
         ELSE [reg |-> disconnect(R, c), wire |-> {}]
    ELSE [reg |-> R, wire |-> {}]

\* ConnectionManager.subscribe_stock
subscribe_stockMut(R, c, k) ==
    IF c \notin R.active THEN [reg |-> R, wire |-> {}]
    ELSE LET R1 == [R EXCEPT
                      !.subs = DictSet(@, c, @[c] \cup {StockTopic(k)}),
                      !.stock = [x \in DOMAIN @ \cup {k} |->
                                   (IF x \in DOMAIN @ THEN @[x] ELSE {}) \cup {c}]]
         IN  send_personal_message(R1, c, Msg(c, "subscription", "subscribe", "stock", k))
subscribe_stock(R, c, k) ==
    IF c \notin R.active THEN [reg |-> R, wire |-> {}]
    ELSE LET R1 == [R EXCEPT
                      !.subs = DictSet(@, c, @[c] \cup {StockTopic(k)}),
                      !.stock = DictSet(@, k, (IF k \in DOMAIN @ THEN @[k] ELSE {}) \cup {c})]
         IN  send_personal_message(R1, c, Msg(c, "subscription", "subscribe", "stock", k))

\* ConnectionManager.unsubscribe_stock
unsubscribe_stockMut(R, c, k) ==
    IF c \notin R.active THEN [reg |-> R, wire |-> {}]
    ELSE LET R1 == [R EXCEPT !.subs = DictSet(@, c, @[c] \ {StockTopic(k)})]
         IN  send_personal_message(R1, c, Msg(c, "subscription", "unsubscribe", "stock", k))
unsubscribe_stock(R, c, k) ==
    IF c \notin R.active THEN [reg |-> R, wire |-> {}]
    ELSE LET R1 == [R EXCEPT
                      !.subs = DictSet(@, c, @[c] \ {StockTopic(k)}),
                      !.stock = StockDiscard(@, k, c)]
         IN  send_personal_message(R1, c, Msg(c, "subscription", "unsubscribe", "stock", k))

\* ConnectionManager.subscribe_market / unsubscribe_market
subscribe_market(R, c) ==
    IF c \notin R.active THEN [reg |-> R, wire |-> {}]
    ELSE LET R1 == [R EXCEPT !.subs = DictSet(@, c, @[c] \cup {MarketTopic}),
                             !.market = @ \cup {c}]
         IN  send_personal_message(R1, c, Msg(c, "subscription", "subscribe", "market", NoCode))
unsubscribe_marketMut(R, c) ==
    IF c \notin R.active \/ c \notin R.market THEN [reg |-> R, wire |-> {}]
    ELSE LET R1 == [R EXCEPT !.subs = DictSet(@, c, @[c] \ {MarketTopic}),
                             !.market = @ \ {c}]
         IN  send_personal_message(R1, c, Msg(c, "subscription", "unsubscribe", "market", NoCode))
unsubscribe_market(R, c) ==
    IF c \notin R.active THEN [reg |-> R, wire |-> {}]
    ELSE LET R1 == [R EXCEPT !.subs = DictSet(@, c, @[c] \ {MarketTopic}),
                             !.market = @ \ {c}]
         IN  send_personal_message(R1, c, Msg(c, "subscription", "unsubscribe", "market", NoCode))

\* ConnectionManager.subscribe_nine_turn / unsubscribe_nine_turn
subscribe_nine_turn(R, c) ==
    IF c \notin R.active THEN [reg |-> R, wire |-> {}]
    ELSE LET R1 == [R EXCEPT !.subs = DictSet(@, c, @[c] \cup {NineTurnTopic}),
                             !.nine = @ \cup {c}]
         IN  send_personal_message(R1, c, Msg(c, "subscription", "subscribe", "nine_turn", NoCode))
unsubscribe_nine_turn(R, c) ==
    IF c \notin R.active THEN [reg |-> R, wire |-> {}]
    ELSE LET R1 == [R EXCEPT !.subs = DictSet(@, c, @[c] \ {NineTurnTopic}),
                             !.nine = @ \ {c}]
         IN  send_personal_message(R1, c, Msg(c, "subscription", "unsubscribe", "nine_turn", NoCode))

\* The control messages a client sends.
SubMsg(action, target, code) ==
    [type |-> "subscription", action |-> action, target |-> target, code |-> code]
StockMessages == {SubMsg(a, "stock", k) : a \in {"subscribe", "unsubscribe"}, k \in ws_codes}
MarketMessages == {SubMsg(a, "market", NoCode) : a \in {"subscribe", "unsubscribe"}}
NineTurnMessages == {SubMsg(a, "nine_turn", NoCode) : a \in {"subscribe", "unsubscribe"}}
PingMessages == {[type |-> t, action |-> "", target |-> "", code |-> NoCode] :
                    t \in {"ping", "get_stats"}}
WsMessages == StockMessages \cup MarketMessages \cup NineTurnMessages \cup PingMessages

\* handle_websocket_message
handle_websocket_message(R, c, m) ==
    IF m.type = "subscription" THEN
       IF m.target = "stock" THEN
          IF m.code = NoCode
          THEN send_personal_message(R, c, Msg(c, "error", "", "", NoCode))
          ELSE IF m.action = "subscribe" THEN subscribe_stock(R, c, m.code)
          ELSE IF m.action = "unsubscribe" THEN unsubscribe_stock(R, c, m.code)
          ELSE [reg |-> R, wire |-> {}]
       ELSE IF m.target = "market" THEN
          IF m.action = "subscribe" THEN subscribe_market(R, c)
          ELSE IF m.action = "unsubscribe" THEN unsubscribe_market(R, c)
          ELSE [reg |-> R, wire |-> {}]
       ELSE IF m.target = "nine_turn" THEN
          IF m.action = "subscribe" THEN subscribe_nine_turn(R, c)
          ELSE IF m.action = "unsubscribe" THEN unsubscribe_nine_turn(R, c)
          ELSE [reg |-> R, wire |-> {}]
       ELSE send_personal_message(R, c, Msg(c, "error", "", "", NoCode))
    ELSE IF m.type = "ping" THEN send_personal_message(R, c, Msg(c, "pong", "", "", NoCode))
    ELSE IF m.type = "get_stats" THEN send_personal_message(R, c, Msg(c, "stats", "", "", NoCode))
    ELSE send_personal_message(R, c, Msg(c, "error", "", "", NoCode))

\* The realtime loop asleep: "idle" in the sleep of a loop turn that found
\* no subscriber dict entry, "sleep" in the one that ends a round, "failed" in
\* the one of the except clause.  Once awake: dict_used and keys_done are the
\* state of the iteration over stock_subscribers.items(), key the security
\* being broadcast, set_used and visited the state of the iteration over its
\* subscriber set, members the set as the broadcast found it, cur the
\* connection whose send_text is awaited (0: none), disconnected the local of
\* broadcast_to_subscribers.  After an exception inside a broadcast,
\* disconnected is as the exception found it and missed holds those the
\* broadcast found in the set, still in it, that the loop had not come to.
RtAsleep(pc) == [pc |-> pc, dict_used |-> 0, keys_done |-> {}, key |-> NoCode,
                 set_used |-> 0, members |-> {}, visited |-> {}, cur |-> 0,
                 disconnected |-> {}, missed |-> {}]
RtSleeping == rt.pc \in {"idle", "sleep", "failed"}

\* A set being iterated by broadcast_to_subscribers is the object that was in
\* stock_subscribers when the call began: once its key is deleted the object
\* is no longer the dict's (set_used -1: the iterator's size check fails).
RtObserve(r, old, new) ==
    IF r.pc = "send" /\ r.key \in DOMAIN old /\ r.key \notin DOMAIN new
    THEN [r EXCEPT !.set_used = -1]
    ELSE r

\* A step of the manager: the registry and the wire afterwards.
WsApply(res) ==
    /\ SetReg(res.reg)
    /\ rt' = RtObserve(rt, stock_subscribers, res.reg.stock)
    /\ UNCHANGED ws_codes

WsInit ==
    /\ active_connections = {}
    /\ subscriptions = <<>>
    /\ stock_subscribers = <<>>
    /\ market_subscribers = {}
    /\ nine_turn_subscribers = {}
    /\ ws_conn = [c \in Conns |-> "unborn"]
    /\ rt = RtAsleep("sleep")
    /\ ws_codes = WsCodes

\* websocket_endpoint: manager.connect accepts, registers the new id and
\* sends the connection message.
WsConnect(c) ==
    /\ ws_conn[c] = "unborn"
    /\ \A d \in Conns : d < c => ws_conn[d] # "unborn"
    /\ ws_conn' = [ws_conn EXCEPT ![c] = "open"]
    /\ SetReg([Reg EXCEPT !.active = @ \cup {c}, !.subs = DictSet(@, c, {})])
    /\ UNCHANGED <<rt, ws_codes>>

\* The client goes away (close frame or lost connection); the server has not
\* noticed yet.
WsClientClose(c) ==
    /\ ws_conn[c] = "open"
    /\ ws_conn' = [ws_conn EXCEPT ![c] = "closed"]
    /\ UNCHANGED <<regVars, rt, ws_codes>>

\* websocket_endpoint: receive_text delivers a control message (one still
\* buffered, when the client has gone) and it is handled.
WsReceive(c, m) ==
    /\ ws_conn[c] \in {"open", "closed"}
    /\ WsApply(handle_websocket_message(Reg, c, m))
    /\ UNCHANGED ws_conn

\* websocket_endpoint: receive_text raises on the gone client; disconnect.
WsEndpointExit(c) ==
    /\ ws_conn[c] = "closed"
    /\ ws_conn' = [ws_conn EXCEPT ![c] = "ended"]
    /\ WsApply([reg |-> disconnect(Reg, c), wire |-> {}])

WsClientNext(messages) ==
    \E c \in Conns :
       \/ WsConnect(c)
       \/ WsClientClose(c)
       \/ \E m \in messages : WsReceive(c, m)
       \/ WsEndpointExit(c)

\* broadcast_to_subscribers: subscriber_set.discard of every noted member.
DiscardDisconnected(set, disconnected) == set \ disconnected

\* broadcast_to_subscribers to a whole set in one step: who is sent the
\* message, and the set afterwards.
BroadcastSent(R, set) == {c \in set : c \in R.active /\ PeerOpen(c)}
BroadcastKept(R, set) == DiscardDisconnected(set, set \ BroadcastSent(R, set))

\* _broadcast_realtime_quotes: nothing to do while the dict is empty.
RtIdle ==
    /\ RtSleeping
    /\ DOMAIN stock_subscribers = {}
    /\ rt' = RtAsleep("idle")
    /\ UNCHANGED <<regVars, ws_conn, ws_codes>>

\* _broadcast_realtime_quotes: fetch the quotes; an empty frame ends the
\* round, any other starts the loop over stock_subscribers.items().
RtFetch ==
    /\ RtSleeping
    /\ DOMAIN stock_subscribers # {}
    /\ \E empty \in BOOLEAN :
          rt' = IF empty THEN RtAsleep("sleep")
                ELSE [RtAsleep("items") EXCEPT
                          !.dict_used = Cardinality(DOMAIN stock_subscribers)]
    /\ UNCHANGED <<regVars, ws_conn, ws_codes>>

\* The dict changed size under the loop over its items: RuntimeError, caught
\* by the loop's except, which ends the round.
RtDictChanged ==
    /\ rt.pc = "items"
    /\ Cardinality(DOMAIN stock_subscribers) # rt.dict_used
    /\ rt' = RtAsleep("failed")
    /\ UNCHANGED <<regVars, ws_conn, ws_codes>>

\* All items visited: the round is over.
RtRoundDone ==
    /\ rt.pc = "items"
    /\ Cardinality(DOMAIN stock_subscribers) = rt.dict_used
    /\ DOMAIN stock_subscribers \ rt.keys_done = {}
    /\ rt' = RtAsleep("sleep")
    /\ UNCHANGED <<regVars, ws_conn, ws_codes>>

\* The next item: skipped when its set is empty or the frame has no row for
\* it; ts_code.split raises on a code that is not a string; otherwise
\* broadcast_to_subscribers starts on the item's set.
RtNextKey(k) ==
    /\ rt.pc = "items"
    /\ Cardinality(DOMAIN stock_subscribers) = rt.dict_used
    /\ k \in DOMAIN stock_subscribers \ rt.keys_done
    /\ LET skip == [rt EXCEPT !.keys_done = @ \cup {k}]
       IN  IF stock_subscribers[k] = {} THEN rt' = skip
           ELSE IF k.t # "str" THEN rt' = RtAsleep("failed")
           ELSE \E has_row \in BOOLEAN :
                   rt' = IF has_row
                         THEN [skip EXCEPT !.pc = "send", !.key = k,
                                  !.set_used = Cardinality(stock_subscribers[k]),
                                  !.members = stock_subscribers[k]]
                         ELSE skip
    /\ UNCHANGED <<regVars, ws_conn, ws_codes>>

\* The set being broadcast to, as the iterator sees it.
RtSetIntact ==
    /\ rt.set_used # -1
    /\ rt.key \in DOMAIN stock_subscribers
    /\ Cardinality(stock_subscribers[rt.key]) = rt.set_used

\* Those the broadcast found in the set, still in it, that the loop has not
\* come to.
RtUnvisited ==
    IF rt.set_used # -1 /\ rt.key \in DOMAIN stock_subscribers
    THEN (stock_subscribers[rt.key] \cap rt.members) \ rt.visited
    ELSE {}

\* The set changed size under broadcast_to_subscribers' loop: RuntimeError,
\* outside its try, caught by the realtime loop's except.
RtSetChanged ==
    /\ rt.pc = "send"
    /\ rt.cur = 0
    /\ ~RtSetIntact
    /\ rt' = [RtAsleep("failed") EXCEPT !.disconnected = rt.disconnected,
                                        !.missed = RtUnvisited]
    /\ UNCHANGED <<regVars, ws_conn, ws_codes>>

\* broadcast_to_subscribers: the next member of the set.  One that is
\* registered is sent the message (send_text is awaited); one that is not is
\* noted in `disconnected`.
RtSendBegin(c) ==
    /\ rt.pc = "send"
    /\ rt.cur = 0
    /\ RtSetIntact
    /\ c \in stock_subscribers[rt.key] \ rt.visited
    /\ rt' = IF c \in active_connections
             THEN [rt EXCEPT !.cur = c]
             ELSE [rt EXCEPT !.visited = @ \cup {c}, !.disconnected = @ \cup {c}]
    /\ UNCHANGED <<regVars, ws_conn, ws_codes>>

\* send_text returns, or raises on a socket whose peer has gone: the member
\* is noted in `disconnected` and the loop goes on.
RtSendEnd ==
    /\ rt.pc = "send"
    /\ rt.cur # 0
    /\ rt' = IF PeerOpen(rt.cur)
             THEN [rt EXCEPT !.visited = @ \cup {rt.cur}, !.cur = 0]
             ELSE [rt EXCEPT !.visited = @ \cup {rt.cur}, !.cur = 0,
                             !.disconnected = @ \cup {rt.cur}]
    /\ UNCHANGED <<regVars, ws_conn, ws_codes>>

\* broadcast_to_subscribers: the loop is over; discard the noted members from
\* the set (the set only), and back to the loop over the items.
RtCleanup ==
    /\ rt.pc = "send"
    /\ rt.cur = 0
    /\ RtSetIntact
    /\ stock_subscribers[rt.key] \ rt.visited = {}
    /\ stock_subscribers' = DictSet(stock_subscribers, rt.key,
             DiscardDisconnected(stock_subscribers[rt.key], rt.disconnected))
    /\ rt' = [RtAsleep("items") EXCEPT !.dict_used = rt.dict_used,
                                       !.keys_done = rt.keys_done]
    /\ UNCHANGED <<active_connections, subscriptions, market_subscribers,
                   nine_turn_subscribers, ws_conn, ws_codes>>

\* _broadcast_market_data: one round with subscribers.
MarketRound ==
    /\ market_subscribers # {}
    /\ market_subscribers' = BroadcastKept(Reg, market_subscribers)
    /\ UNCHANGED <<active_connections, subscriptions, stock_subscribers,
                   nine_turn_subscribers, ws_conn, rt, ws_codes>>

\* _broadcast_nine_turn_signals: one round with subscribers; the message goes
\* out only when there are signals.
NineTurnRound ==
    /\ nine_turn_subscribers # {}
    /\ \E signals \in BOOLEAN :
          nine_turn_subscribers' =
             IF signals THEN BroadcastKept(Reg, nine_turn_subscribers)
             ELSE nine_turn_subscribers
    /\ UNCHANGED <<active_connections, subscriptions, stock_subscribers,
                   market_subscribers, ws_conn, rt, ws_codes>>

RtNext ==
    \/ RtIdle
    \/ RtFetch
    \/ RtDictChanged
    \/ RtRoundDone
    \/ \E k \in WsCodes : RtNextKey(k)
    \/ RtSetChanged
    \/ \E c \in Conns : RtSendBegin(c)
    \/ RtSendEnd
    \/ RtCleanup

WsNext == WsClientNext(WsMessages) \/ RtNext \/ MarketRound \/ NineTurnRound

\* Clients that subscribe to quotes and to the market data only.
WsQuotesNext == WsClientNext(StockMessages \cup MarketMessages) \/ RtNext \/ MarketRound

\* A run whose clients ask for MaxCodes securities.
WsInitCodes ==
    /\ active_connections = {}
    /\ subscriptions = <<>>
    /\ stock_subscribers = <<>>
    /\ market_subscribers = {}
    /\ nine_turn_subscribers = {}
    /\ ws_conn = [c \in Conns |-> "unborn"]
    /\ rt = RtAsleep("sleep")
    /\ ws_codes \in CodeSets


(***************************************************************************)
(*        NINE-TURN SETUP  (src/app/technical_analysis.py)                 *)
(***************************************************************************)

\* Bars of the frames the detector is given.
MaxBars == 14
\* The close of the bars that have no bar four places before them.
BasePrice == 100

\* A frame is described by three numbers: bars 4 .. 4 + run - 1 close
\* `first` away from the bar four places before, the later bars `after`.
\* The rows come in date order or in reverse.
TdShapes ==
    [first : {-1, 0, 1}, run : 0..(MaxBars - 4), after : {-1, 0, 1},
     reversed : BOOLEAN]

RECURSIVE CloseAt(_, _)
CloseAt(p, i) ==
    IF i < 4 THEN BasePrice - i
    ELSE CloseAt(p, i - 4) + (IF i < 4 + p.run THEN p.first ELSE p.after)

\* The frame of a shape: one row per bar, trade_date the bar's number.
TdFrame(p) ==
    [k \in 1..MaxBars |->
        LET i == IF p.reversed THEN MaxBars - k ELSE k - 1
        IN  [trade_date |-> i, close |-> CloseAt(p, i)]]

\* df.sort_values('trade_date').reset_index(drop=True)
SortByTradeDate(df) ==
    LET rows == {df[k] : k \in DOMAIN df}
    IN  [k \in 1..Len(df) |->
            CHOOSE r \in rows :
                Cardinality({q \in rows : q.trade_date < r.trade_date}) = k - 1]

\* A column of the frame holding v in every row.
Column(df, v) == [k \in 1..Len(df) |-> v]

\* Row i of a frame or column, rows counted from 0 as .loc does.
Loc(col, i) == col[i + 1]
SetLoc(col, i, v) == [col EXCEPT ![i + 1] = v]

TdSetupIdle(df) ==
    [pc |-> "called", df |-> df, i |-> 0, buy_count |-> 0, sell_count |-> 0,
     td_setup_buy |-> <<>>, td_setup_sell |-> <<>>,
     td_setup_buy_count |-> <<>>, td_setup_sell_count |-> <<>>,
     td_setup_buy_complete |-> <<>>, td_setup_sell_complete |-> <<>>]

TdSetupInit == td_setup \in {TdSetupIdle(TdFrame(p)) : p \in TdShapes}
\* The detector given an empty frame.
TdSetupInitEmpty == td_setup = TdSetupIdle(<<>>)

\* calculate_td_setup up to its loop: copy, sort, the six new columns.
TdSetupBegin ==
    /\ td_setup.pc = "called"
    /\ LET df == SortByTradeDate(td_setup.df)
       IN  td_setup' =
               [pc |-> "loop", df |-> df, i |-> 4,
                buy_count |-> 0, sell_count |-> 0,
                td_setup_buy |-> Column(df, 0),
                td_setup_sell |-> Column(df, 0),
                td_setup_buy_count |-> Column(df, 0),
                td_setup_sell_count |-> Column(df, 0),
                td_setup_buy_complete |-> Column(df, FALSE),
                td_setup_sell_complete |-> Column(df, FALSE)]

\* The counter a bar leaves behind once it has been written to the row.
AfterCompleteMut(count) == count
AfterComplete(count) == IF count >= 9 THEN 0 ELSE count

\* One pass of the loop body, for bar t.i.
TdSetupBar(t) ==
    LET i == t.i
        current_close == Loc(t.df, i).close
        prev_4_close == Loc(t.df, i - 4).close
    IN  IF current_close < prev_4_close THEN
            LET n == IF t.buy_count = 0 \/ Loc(t.td_setup_buy, i - 1) > 0
                     THEN t.buy_count + 1 ELSE 1
                counted == t.buy_count = 0 \/ Loc(t.td_setup_buy, i - 1) > 0
            IN  [t EXCEPT
                    !.td_setup_buy = SetLoc(@, i, n),
                    !.td_setup_buy_count = SetLoc(@, i, n),
                    !.td_setup_buy_complete =
                        IF counted /\ n >= 9 THEN SetLoc(@, i, TRUE) ELSE @,
                    !.buy_count = IF counted THEN AfterComplete(n) ELSE n,
                    !.sell_count = 0,
                    !.i = i + 1]
        ELSE IF current_close > prev_4_close THEN
            LET n == IF t.sell_count = 0 \/ Loc(t.td_setup_sell, i - 1) > 0
                     THEN t.sell_count + 1 ELSE 1
                counted == t.sell_count = 0 \/ Loc(t.td_setup_sell, i - 1) > 0
            IN  [t EXCEPT
                    !.td_setup_sell = SetLoc(@, i, n),
                    !.td_setup_sell_count = SetLoc(@, i, n),
                    !.td_setup_sell_complete =
                        IF counted /\ n >= 9 THEN SetLoc(@, i, TRUE) ELSE @,
                    !.sell_count = IF counted THEN AfterComplete(n) ELSE n,
                    !.buy_count = 0,
                    !.i = i + 1]
        ELSE [t EXCEPT !.buy_count = 0, !.sell_count = 0, !.i = i + 1]

\* for i in range(4, len(df)): the next bar.
TdSetupLoop ==
    /\ td_setup.pc = "loop"
    /\ td_setup.i < Len(td_setup.df)
    /\ td_setup' = TdSetupBar(td_setup)

\* The range is used up: return df.
TdSetupReturn ==
    /\ td_setup.pc = "loop"
    /\ td_setup.i >= Len(td_setup.df)
    /\ td_setup' = [td_setup EXCEPT !.pc = "returned"]

TdSetupNext == TdSetupBegin \/ TdSetupLoop \/ TdSetupReturn


(***************************************************************************)
(*           LEGACY SIMPLIFIED NINE-TURN  (src/app.py)                     *)
(***************************************************************************)

\* Longest list of closes the detector is given.
MaxCloses == 13

\* Python's None and a value that is not None.
None == {}
Some(v) == {v}

\* A list of closes is described by its length and its slope: `first` per
\* bar up to bar `run`, `after` per bar from there on.
TdSeqShapes ==
    [len : 0..MaxCloses, first : {-1, 0, 1}, run : 0..MaxCloses,
     after : {-1, 0, 1}]

RECURSIVE ShapeClose(_, _)
ShapeClose(p, i) ==
    IF i = 0 THEN 10
    ELSE ShapeClose(p, i - 1) + (IF i <= p.run THEN p.first ELSE p.after)

ShapeCloses(p) == [k \in 1..p.len |-> ShapeClose(p, k - 1)]

TdSeqIdle(closes) ==
    [pc |-> "called", closes |-> closes, i |-> 0,
     buy_count |-> 0, sell_count |-> 0,
     buy_sequence |-> <<>>, sell_sequence |-> <<>>, result |-> None]

TdSeqInit == td_seq \in {TdSeqIdle(ShapeCloses(p)) : p \in TdSeqShapes}
\* The detector given an empty list.
TdSeqInitEmpty == td_seq = TdSeqIdle(<<>>)

\* if len(closes) < 5: return None
TdSeqShort ==
    /\ td_seq.pc = "called"
    /\ Len(td_seq.closes) < 5
    /\ td_seq' = [td_seq EXCEPT !.pc = "returned", !.result = None]

TdSeqEnter ==
    /\ td_seq.pc = "called"
    /\ Len(td_seq.closes) >= 5
    /\ td_seq' = [td_seq EXCEPT !.pc = "loop"]

\* The bars that have no bar four places before them.
TdSeqSkippedMut(i) == i < 5
TdSeqSkipped(i) == i < 4

\* count if count <= 9 else None
Capped(count) == IF count <= 9 THEN Some(count) ELSE None

\* One pass of the loop body, for bar t.i (bars counted from 0).
TdSeqBar(t) ==
    LET i == t.i
        cur == t.closes[i + 1]
    IN  IF TdSeqSkipped(i) THEN
            [t EXCEPT !.buy_sequence = Append(@, None),
                      !.sell_sequence = Append(@, None),
                      !.i = i + 1]
        ELSE IF cur > t.closes[i - 4 + 1] THEN
            [t EXCEPT !.buy_count = @ + 1,
                      !.sell_count = 0,
                      !.buy_sequence = Append(@, Capped(t.buy_count + 1)),
                      !.sell_sequence = Append(@, None),
                      !.i = i + 1]
        ELSE IF cur < t.closes[i - 4 + 1] THEN
            [t EXCEPT !.sell_count = @ + 1,
                      !.buy_count = 0,
                      !.sell_sequence = Append(@, Capped(t.sell_count + 1)),
                      !.buy_sequence = Append(@, None),
                      !.i = i + 1]
        ELSE
            [t EXCEPT !.buy_count = 0,
                      !.sell_count = 0,
                      !.buy_sequence = Append(@, None),
                      !.sell_sequence = Append(@, None),
                      !.i = i + 1]

\* for i in range(len(closes)): the next bar.
TdSeqLoop ==
    /\ td_seq.pc = "loop"
    /\ td_seq.i < Len(td_seq.closes)
    /\ td_seq' = TdSeqBar(td_seq)

\* sequence[-1] if sequence else None
Last(sequence) == IF sequence # <<>> THEN sequence[Len(sequence)] ELSE None

\* The value returned for the last bar: the buy count, the negated sell
\* count, or None.
TdSeqResult(t) ==
    LET last_buy == Last(t.buy_sequence)
        last_sell == Last(t.sell_sequence)
    IN  IF last_buy # None THEN last_buy
        ELSE IF last_sell # None THEN {-v : v \in last_sell}
        ELSE None

TdSeqReturn ==
    /\ td_seq.pc = "loop"
    /\ td_seq.i >= Len(td_seq.closes)
    /\ td_seq' = [td_seq EXCEPT !.pc = "returned", !.result = TdSeqResult(td_seq)]

TdSeqNext == TdSeqShort \/ TdSeqEnter \/ TdSeqLoop \/ TdSeqReturn


(***************************************************************************)
(*            LEGACY INTEGRITY CHECK  (src/data_sync.py)                   *)
(***************************************************************************)

\* Dates in sync_dates, and rows of one date in daily_data.
MaxCheckDates == 2
MaxTableRows == 10

tables_to_check ==
    <<"daily_data", "stock_basic_data", "margin_data", "moneyflow_data",
      "top_list_data", "top_inst_data", "daily_basic_data">>

\* DataSync.get_db_connection: sqlite3.connect(db_path) and nothing else,
\* so the connection's rows are plain tuples.
DataSyncConnection == [row_factory |-> "tuple"]

\* cursor.fetchone() of SELECT COUNT(*) as count ...
Fetchone(conn, n) ==
    [factory |-> conn.row_factory, keys |-> <<"count">>, values |-> <<n>>]

\* row[name], name a string: a value of a sqlite3.Row, a TypeError of a
\* tuple.
RowByName(row, name) ==
    IF row.factory = "Row" /\ \E k \in DOMAIN row.keys : row.keys[k] = name
    THEN [raised |-> FALSE,
          value |-> row.values[CHOOSE k \in DOMAIN row.keys : row.keys[k] = name]]
    ELSE [raised |-> TRUE, value |-> 0]

\* What the database holds for one date: the rows of daily_data and of
\* moneyflow_data (the other five tables are empty), and what the caller
\* expects for it.
CheckDays ==
    [daily_data : 0..MaxTableRows, moneyflow_data : {0, 1}, expected : {0, 5, 10}]

RowsOf(day, table_name) ==
    IF table_name = "daily_data" THEN day.daily_data
    ELSE IF table_name = "moneyflow_data" THEN day.moneyflow_data
    ELSE 0

\* The rows the database holds for the date, all seven tables together.
StoredTotal(day) ==
    LET RECURSIVE Sum(_)
        Sum(k) == IF k = 0 THEN 0 ELSE Sum(k - 1) + RowsOf(day, tables_to_check[k])
    IN  Sum(Len(tables_to_check))

\* The inner try of one table: its entry of date_report['tables'].
TableReport(conn, day, table_name) ==
    LET got == RowByName(Fetchone(conn, RowsOf(day, table_name)), "count")
    IN  IF got.raised THEN [count |-> 0, error |-> TRUE]
        ELSE [count |-> got.value, error |-> FALSE]

\* total_actual_for_date: the counts of the tables whose try went through.
TotalActualForDate(conn, day) ==
    LET RECURSIVE Sum(_)
        Sum(k) ==
            IF k = 0 THEN 0
            ELSE LET r == TableReport(conn, day, tables_to_check[k])
                 IN  Sum(k - 1) + (IF r.error THEN 0 ELSE r.count)
    IN  Sum(Len(tables_to_check))

\* total < expected * 0.8 (the counts are small integers: exact).
BelowThreshold(total, expected) == total * 10 < expected * 8

RECURSIVE SumExpected(_, _)
SumExpected(days, k) ==
    IF k = 0 THEN 0 ELSE SumExpected(days, k - 1) + days[k].expected

\* round(actual / expected * 100, 2), in hundredths of a percent.
CompletionRate(actual, expected) == (actual * 20000 + expected) \div (2 * expected)

IntegrityIdle(days) ==
    [pc |-> "called", days |-> days, k |-> 0,
     is_complete |-> TRUE, missing_dates |-> <<>>, incomplete_data |-> <<>>,
     total_expected |-> 0, total_actual |-> 0, actual |-> <<>>,
     completion_rate |-> 0, error |-> FALSE]

\* sync_dates is <<1, ..., n>>; days[d] is what the run finds for date d.
IntegrityInit ==
    \E n \in 1..MaxCheckDates :
        integrity \in {IntegrityIdle(days) : days \in [1..n -> CheckDays]}
IntegrityInitOne ==
    integrity = IntegrityIdle(<<[daily_data |-> 0, moneyflow_data |-> 0, expected |-> 0]>>)

\* The connection and the empty report.
IntegrityBegin ==
    /\ integrity.pc = "called"
    /\ integrity' =
           [integrity EXCEPT
               !.pc = "dates", !.k = 1,
               !.total_expected = SumExpected(integrity.days, Len(integrity.days))]

\* for sync_date in sync_dates: the seven counts and the classification.
IntegrityDate ==
    /\ integrity.pc = "dates"
    /\ integrity.k <= Len(integrity.days)
    /\ LET d == integrity.k
           day == integrity.days[d]
           total == TotalActualForDate(DataSyncConnection, day)
       IN  integrity' =
               [integrity EXCEPT
                   !.k = d + 1,
                   !.actual = Append(@, total),
                   !.total_actual = @ + total,
                   !.missing_dates = IF total = 0 THEN Append(@, d) ELSE @,
                   !.incomplete_data =
                       IF total # 0 /\ BelowThreshold(total, day.expected)
                       THEN Append(@, d) ELSE @,
                   !.is_complete =
                       IF total = 0 \/ BelowThreshold(total, day.expected)
                       THEN FALSE ELSE @]

\* After the loop: close, the overall completion rate, return the report.
IntegrityReturn ==
    /\ integrity.pc = "dates"
    /\ integrity.k > Len(integrity.days)
    /\ integrity' =
           [integrity EXCEPT
               !.pc = "returned",
               !.completion_rate =
                   IF integrity.total_expected > 0
                   THEN CompletionRate(integrity.total_actual, integrity.total_expected)
                   ELSE 10000]

\* The outer except: the database cannot be opened.
IntegrityFail ==
    /\ integrity.pc = "called"
    /\ integrity' =
           [integrity EXCEPT
               !.pc = "failed", !.is_complete = FALSE, !.error = TRUE,
               !.completion_rate = 0]

IntegrityNext ==
    IntegrityBegin \/ IntegrityDate \/ IntegrityReturn \/ IntegrityFail


(***************************************************************************)
(*      WEBSOCKET ENDPOINT AND ITS REPLIES  (src/app/websocket.py)         *)
(***************************************************************************)

\* No control message has been handled in the last step.
NoReply ==
    [to |-> 0,
     msg |-> [type |-> "", action |-> "", target |-> "", code |-> NoCode],
     sent |-> {}]

WsReplyInit == ws_reply = NoReply

\* websocket_endpoint: a control message is received and handled; ws_reply
\* keeps what the handling sent.
WsReceiveReply(c, m) ==
    /\ WsReceive(c, m)
    /\ ws_reply' = [to |-> c, msg |-> m,
                    sent |-> handle_websocket_message(Reg, c, m).wire]

\* The endpoint coroutines with their replies, and the two broadcaster loops
\* that run a round in one step.
WsCtlNext ==
    \/ \E c \in Conns : \E m \in WsMessages : WsReceiveReply(c, m)
    \/ /\ \E c \in Conns : WsConnect(c) \/ WsClientClose(c) \/ WsEndpointExit(c)
       /\ ws_reply' = NoReply
    \/ /\ MarketRound \/ NineTurnRound
       /\ ws_reply' = NoReply


(***************************************************************************)
(*                 LEGACY SCHEDULER  (src/scheduler.py)                    *)
(***************************************************************************)

\* Calls of the module-level operations in one process.
MaxSchedCalls == 7

\* The schedule.every()...do() lines of StockScheduler.start_scheduler.
JobsPerStart == 15

\* instance: _scheduler_instance (None, or the number of the StockScheduler
\* it holds); created: StockScheduler() constructions so far; is_running:
\* the instance's flag; jobs: the jobs in the schedule module; spawned and
\* alive: run_scheduler threads started so far, and those still looping;
\* calls: module-level calls so far; last: the latest call, with the flag,
\* the jobs and the threads it found.
NoCall == [op |-> "none", was_running |-> FALSE, jobs |-> 0, spawned |-> 0]

SchedInit ==
    sched = [instance |-> None, created |-> 0, is_running |-> FALSE,
             jobs |-> 0, spawned |-> 0, alive |-> 0, calls |-> 0,
             last |-> NoCall]

CallOf(s, op) ==
    [op |-> op, was_running |-> s.is_running, jobs |-> s.jobs,
     spawned |-> s.spawned]

\* if _scheduler_instance is None: _scheduler_instance = StockScheduler()
EnsureInstance(s) ==
    IF s.instance = None
    THEN [s EXCEPT !.instance = Some(s.created + 1), !.created = @ + 1,
                   !.is_running = FALSE]
    ELSE s

\* StockScheduler.start_scheduler: the guard on is_running.
AlreadyRunningMut(s) == FALSE
AlreadyRunning(s) == s.is_running

\* StockScheduler.start_scheduler
InstanceStart(s) ==
    IF AlreadyRunning(s) THEN s
    ELSE [s EXCEPT !.jobs = @ + JobsPerStart,
                   !.is_running = TRUE,
                   !.spawned = @ + 1,
                   !.alive = @ + 1]

\* start_scheduler()
StartScheduler ==
    /\ sched.calls < MaxSchedCalls
    /\ sched' = [InstanceStart(EnsureInstance(sched)) EXCEPT
                    !.calls = sched.calls + 1,
                    !.last = CallOf(sched, "start")]

\* stop_scheduler(): is_running = False and schedule.clear(), when there is
\* an instance.
StopScheduler ==
    /\ sched.calls < MaxSchedCalls
    /\ sched' = [(IF sched.instance # None
                  THEN [sched EXCEPT !.is_running = FALSE, !.jobs = 0]
                  ELSE sched) EXCEPT
                    !.calls = sched.calls + 1,
                    !.last = CallOf(sched, "stop")]

\* manual_sync(): the instance is made if there is none; the job runs in
\* the caller's thread.
ManualSync ==
    /\ sched.calls < MaxSchedCalls
    /\ sched' = [EnsureInstance(sched) EXCEPT
                    !.calls = sched.calls + 1,
                    !.last = CallOf(sched, "manual_sync")]

\* run_scheduler: a loop thread wakes, finds is_running false and ends.
SchedLoopExit ==
    /\ sched.alive > 0
    /\ ~sched.is_running
    /\ sched' = [sched EXCEPT !.alive = @ - 1]

SchedNext == StartScheduler \/ StopScheduler \/ ManualSync \/ SchedLoopExit


(***************************************************************************)
(*            LEGACY GUARDED VENDOR CALL  (src/data_sync.py)               *)
(***************************************************************************)

\* DataSync.max_retries
max_retries == 3

\* What api_func does when called: returns, raises the vendor's rate-limit
\* message, raises something else.
VendorOutcomes == {"ok", "rate_limit", "error"}

\* The vendor's behaviour at its successive calls, one more than
\* max_retries of them.
VendorScripts == [1..(max_retries + 1) -> VendorOutcomes]

\* script: the vendor's behaviour; attempt: the loop variable; calls: calls of
\* api_func so far; rate_limited: self.rate_limited; recent: the last call
\* was less than api_call_interval ago; sleeps: time.sleep calls so far;
\* result: the value returned (the number of the call that produced it).
RetryIdle(script, rate_limited, recent) ==
    [pc |-> "loop", script |-> script, attempt |-> 0, calls |-> 0,
     rate_limited |-> rate_limited, recent |-> recent, sleeps |-> 0,
     result |-> None]

RetryInit ==
    retry \in {RetryIdle(s, rl, rc) :
                  s \in VendorScripts, rl \in BOOLEAN, rc \in BOOLEAN}
RetryInitOne ==
    retry = RetryIdle([k \in 1..(max_retries + 1) |-> "ok"], FALSE, FALSE)

\* for attempt in range(self.max_retries)
InRangeMut(attempt) == attempt < max_retries + 1
InRange(attempt) == attempt < max_retries

\* One pass of the loop: the wait of a rate-limited wrapper, the call, and
\* the handling of what the call did.
RetryAttempt ==
    /\ retry.pc = "loop"
    /\ InRange(retry.attempt)
    /\ LET waited == retry.rate_limited /\ retry.recent
           n == retry.calls + 1
           outcome == retry.script[n]
           before == [retry EXCEPT !.calls = n,
                                   !.sleeps = IF waited THEN @ + 1 ELSE @]
       IN  retry' =
             IF outcome = "ok" THEN
                 [before EXCEPT !.pc = "returned", !.result = Some(n),
                                !.recent = TRUE, !.rate_limited = FALSE]
             ELSE IF outcome = "rate_limit" THEN
                 [before EXCEPT !.rate_limited = TRUE, !.sleeps = @ + 1,
                                !.recent = FALSE,
                                !.attempt = @ + 1]
             ELSE IF retry.attempt < max_retries - 1 THEN
                 [before EXCEPT !.sleeps = @ + 1, !.attempt = @ + 1]
             ELSE [before EXCEPT !.pc = "raised"]

\* The range is used up: raise Exception("API调用失败，已重试 3 次").
RetryExhausted ==
    /\ retry.pc = "loop"
    /\ ~InRange(retry.attempt)
    /\ retry' = [retry EXCEPT !.pc = "raised"]

RetryNext == RetryAttempt \/ RetryExhausted


(***************************************************************************)
(*             LEGACY INCREMENTAL SYNC  (src/data_sync.py)                 *)
(***************************************************************************)

\* Dates are the numbers their '%Y%m%d' strings read as (20240229); two such
\* strings compare as their numbers do.
\* datetime.strptime(s, '%Y%m%d')
Strptime(s) == [year |-> s \div 10000, month |-> (s \div 100) % 100, day |-> s % 100]
\* dt.strftime('%Y%m%d')
Strftime(dt) == dt.year * 10000 + dt.month * 100 + dt.day

IsLeap(y) == (y % 4 = 0 /\ y % 100 # 0) \/ y % 400 = 0
DaysInMonth(y, mo) ==
    IF mo = 2 THEN (IF IsLeap(y) THEN 29 ELSE 28)
    ELSE IF mo \in {4, 6, 9, 11} THEN 30 ELSE 31

YearLen(y) == IF IsLeap(y) THEN 366 ELSE 365

\* The day's number within its year, and back.
RECURSIVE DaysBefore(_, _)
DaysBefore(y, mo) == IF mo = 1 THEN 0 ELSE DaysBefore(y, mo - 1) + DaysInMonth(y, mo - 1)
DayOfYear(dt) == DaysBefore(dt.year, dt.month) + dt.day

RECURSIVE FromDayOfYear(_, _, _)
FromDayOfYear(y, mo, n) ==
    IF n <= DaysInMonth(y, mo) THEN [year |-> y, month |-> mo, day |-> n]
    ELSE FromDayOfYear(y, mo + 1, n - DaysInMonth(y, mo))

\* dt + timedelta(days=n)
RECURSIVE InYear(_, _)
InYear(y, n) ==
    IF n < 1 THEN InYear(y - 1, n + YearLen(y - 1))
    ELSE IF n > YearLen(y) THEN InYear(y + 1, n - YearLen(y))
    ELSE FromDayOfYear(y, 1, n)
PlusDays(dt, n) == InYear(dt.year, DayOfYear(dt) + n)

\* The days of the runs: the end of a February and the start of a March.
Calendar == {20240227, 20240228, 20240229, 20240301, 20240302}

\* What the vendor does with a request: rows for the days it has in the
\* window, no rows, or an error that outlasts the retries.
VendorAnswers == {"rows", "empty", "error"}

\* today: datetime.now(); last_date: what get_last_trade_date returns (None
\* when there is no row, and when the database read fails); days: the
\* argument; requests: the windows asked of the vendor; saved: the days whose
\* rows went to save_daily_data; ret: the value returned.
IncrIdle(today, last_date, days, vendor) ==
    [pc |-> "called", today |-> today, last_date |-> last_date, days |-> days,
     vendor |-> vendor, start_date |-> 0, end_date |-> 0,
     requests |-> <<>>, df |-> {}, saved |-> {}, ret |-> None]

IncrInit ==
    incr \in {IncrIdle(t, l, d, v) :
                 t \in Calendar,
                 l \in {None} \cup {Some(x) : x \in Calendar},
                 d \in {None, Some(1)},
                 v \in VendorAnswers}
IncrInitOne == incr = IncrIdle(20240301, None, None, "empty")

\* The window: from the day after the last stored one, or from `days` (365
\* by default) days back, to today.
StartDate(today, last_date, days) ==
    IF last_date # None
    THEN LET d == CHOOSE x \in last_date : TRUE
         IN  Strftime(PlusDays(Strptime(d), 1))
    ELSE IF days # None
         THEN LET n == CHOOSE x \in days : TRUE
              IN  Strftime(PlusDays(Strptime(today), -n))
    ELSE Strftime(PlusDays(Strptime(today), -365))

IncrWindow ==
    /\ incr.pc = "called"
    /\ incr' = [incr EXCEPT
                   !.pc = "window",
                   !.start_date = StartDate(incr.today, incr.last_date, incr.days),
                   !.end_date = incr.today]

\* if start_date >= end_date: the data are up to date.
UpToDateMut(start_date, end_date) == start_date > end_date
UpToDate(start_date, end_date) == start_date >= end_date

IncrUpToDate ==
    /\ incr.pc = "window"
    /\ UpToDate(incr.start_date, incr.end_date)
    /\ incr' = [incr EXCEPT !.pc = "returned", !.ret = Some(0)]

\* get_daily_data(ts_code, start_date, end_date): the guarded vendor call;
\* an error or an empty answer gives an empty frame.
IncrFetch ==
    /\ incr.pc = "window"
    /\ ~UpToDate(incr.start_date, incr.end_date)
    /\ incr' = [incr EXCEPT
                   !.pc = "fetched",
                   !.requests = Append(@, [start_date |-> incr.start_date,
                                           end_date |-> incr.end_date]),
                   !.df = IF incr.vendor = "rows"
                          THEN {x \in Calendar :
                                   incr.start_date <= x /\ x <= incr.end_date}
                          ELSE {}]

\* return self.save_daily_data(df)
IncrSave ==
    /\ incr.pc = "fetched"
    /\ incr' = [incr EXCEPT !.pc = "returned", !.saved = incr.df,
                            !.ret = Some(Cardinality(incr.df))]

IncrNext == IncrWindow \/ IncrUpToDate \/ IncrFetch \/ IncrSave


(***************************************************************************)
(*   ASYNC RATE LIMITING WITH A FAILING CACHE STORE  (src/app/cache.py)    *)
(***************************************************************************)

\* Where dispatch goes on after check_rate_limit met no client or caught an
\* exception: it returned True, so to get_current_usage and call_next.
AfterCacheErrorMut == "reset"
AfterCacheError == "usage"

\* check_rate_limit: redis_client is None; return True with no command.
RlNoClient(s) ==
    /\ rlReq[s].pc = "get"
    /\ rlReq' = [rlReq EXCEPT ![s].pc = AfterCacheError, ![s].op = "no_client"]
    /\ UNCHANGED <<rl_limit, rl_store, rl_hist>>

\* check_rate_limit: the GET raises; the except clause returns True.
RlGetFails(s) ==
    /\ rlReq[s].pc = "get"
    /\ rlReq' = [rlReq EXCEPT ![s].pc = AfterCacheError, ![s].op = "failed"]
    /\ UNCHANGED <<rl_limit, rl_store, rl_hist>>

\* check_rate_limit: the SETEX or INCR raises, having reached the store or
\* not; the except clause returns True.
RlApplyFails(s) ==
    /\ rlReq[s].pc = "apply"
    /\ rlReq[s].op \in {"setex", "incr"}
    /\ rl_store' \in {rl_store, ApplyOp(rl_store, rlReq[s].key, rlReq[s].op)}
    /\ rlReq' = [rlReq EXCEPT ![s].pc = AfterCacheError, ![s].op = "failed"]
    /\ UNCHANGED <<rl_limit, rl_hist>>

\* dispatch, not allowed: the TTL of get_reset_time raises and it answers
\* `window`; then the 429.
RlRejectTtlFails(s) ==
    /\ rlReq[s].pc = "reset"
    /\ rl_hist' = Record(rl_hist, rlReq[s].key,
                         [status |-> 429, retry_after |-> RateLimitPeriod,
                          reset |-> "window"])
    /\ rlReq' = [rlReq EXCEPT ![s] = Idle]
    /\ UNCHANGED <<rl_limit, rl_store>>

\* The limiter over a store whose commands may fail.
RateFaultNext ==
    \/ RateNext
    \/ \E s \in RlSlots :
          RlNoClient(s) \/ RlGetFails(s) \/ RlApplyFails(s) \/ RlRejectTtlFails(s)


(***************************************************************************)
(*         ASYNC NINE-TURN SIGNAL REFRESH  (src/app/services.py)           *)
(***************************************************************************)

\* Signals are told apart by their day, 1..MaxSignalDay.
MaxSignalDay == 3
SignalDays == 1..MaxSignalDay

\* update_nine_turn_signals: `if len(historical_data) < 13: continue`.
MinHistory == 13
HistoryLens == {MinHistory - 1, MinHistory}

\* models.NineTurnSignal: its columns, and those a row cannot do without
\* (not Optional, no default).
NineTurnSignalColumns ==
    {"id", "ts_code", "trade_date", "signal_type", "signal_strength",
     "setup_count", "countdown_count", "is_confirmed", "price", "volume",
     "rsi_value", "macd_value", "volume_ratio", "created_at", "updated_at"}
NineTurnSignalRequired ==
    {"ts_code", "trade_date", "signal_type", "signal_strength", "setup_count", "price"}

\* _save_nine_turn_signals: the keys of the records it builds.
RecordKeys ==
    {"ts_code", "signal_date", "signal_type", "signal_strength",
     "signal_description", "close_price", "setup_buy_count", "setup_sell_count",
     "countdown_buy_count", "countdown_sell_count"}

\* session.execute(insert(NineTurnSignal), records): a record is stored only
\* if its keys name columns and give every required column a value.
InsertAccepted(keys) ==
    /\ keys \subseteq NineTurnSignalColumns
    /\ NineTurnSignalRequired \subseteq keys

\* stored: the security's committed rows; session: its rows as the open
\* session sees them; hist_len: len(historical_data); found: recent_signals;
\* txn_ok: the session's transaction can still be committed.
NtsIdle(stored, hist_len, found) ==
    [pc |-> "history", stored |-> stored, session |-> stored,
     hist_len |-> hist_len, found |-> found, txn_ok |-> TRUE]

NtsInit ==
    \E stored \in SUBSET SignalDays, h \in HistoryLens, found \in SUBSET SignalDays :
       nts = NtsIdle(stored, h, found)
NtsInitOne == nts = NtsIdle({}, MinHistory - 1, {})

\* Fewer than 13 rows of history: `continue`.
NtsShort ==
    /\ nts.pc = "history"
    /\ nts.hist_len < MinHistory
    /\ nts' = [nts EXCEPT !.pc = "log"]

\* `if recent_signals:` is false: _save_nine_turn_signals is not called.
NtsNoSignals ==
    /\ nts.pc = "history"
    /\ nts.hist_len >= MinHistory
    /\ nts.found = {}
    /\ nts' = [nts EXCEPT !.pc = "log"]

\* _save_nine_turn_signals, first statement: delete the security's rows.
NtsDelete ==
    /\ nts.pc = "history"
    /\ nts.hist_len >= MinHistory
    /\ nts.found # {}
    /\ nts' = [nts EXCEPT !.pc = "insert", !.session = {}]

\* _save_nine_turn_signals, the insert.  When it raises, the except of
\* _save_nine_turn_signals logs and returns; depending on where the error
\* arose (building the statement, or in the database) the transaction can
\* still be committed or is lost.
NtsInsert ==
    /\ nts.pc = "insert"
    /\ IF InsertAccepted(RecordKeys)
       THEN nts' = [nts EXCEPT !.pc = "log", !.session = nts.found]
       ELSE \E ok \in BOOLEAN : nts' = [nts EXCEPT !.pc = "log", !.txn_ok = ok]

\* _log_data_update and session.commit(); get_async_session rolls back when
\* the commit raises.
NtsCommit ==
    /\ nts.pc = "log"
    /\ nts' = IF nts.txn_ok
              THEN [nts EXCEPT !.pc = "done", !.stored = nts.session]
              ELSE [nts EXCEPT !.pc = "done", !.session = nts.stored]

NtsNext == NtsShort \/ NtsNoSignals \/ NtsDelete \/ NtsInsert \/ NtsCommit


(***************************************************************************)
(*           NINE-TURN COUNTDOWN  (src/app/technical_analysis.py)          *)
(***************************************************************************)

\* Frames of up to MaxCdBars rows, with prices 1..MaxCdPrice.
MaxCdBars == 18
MaxCdPrice == 2

\* The count at which a countdown is complete.
CountdownTarget == 13

\* A row of the frame passed in, as far as the function reads it.
CdBars ==
    {b \in [low : 1..MaxCdPrice, close : 1..MaxCdPrice, high : 1..MaxCdPrice,
            td_setup_buy_complete : BOOLEAN, td_setup_sell_complete : BOOLEAN] :
        b.low <= b.close /\ b.close <= b.high}

\* The columns the function writes, as initialised.
CdRowInit ==
    [td_setup_buy_complete |-> FALSE, td_setup_sell_complete |-> FALSE,
     td_countdown_buy_count |-> 0, td_countdown_sell_count |-> 0,
     td_countdown_buy_complete |-> FALSE, td_countdown_sell_complete |-> FALSE]

\* i: the loop variable; low1, high1 and low2, high2: rows i-1 and i-2;
\* the four locals of the function; row: the row written last; open_buy,
\* open_sell: read off the columns alone, a setup completion of the side has
\* been seen and no countdown completion of the side since; was_open_*: the
\* same before the row written last.
CdIdle(low2, high2, low1, high1) ==
    [pc |-> "loop", i |-> 2,
     low2 |-> low2, high2 |-> high2, low1 |-> low1, high1 |-> high1,
     buy_countdown |-> 0, sell_countdown |-> 0,
     buy_setup_completed |-> FALSE, sell_setup_completed |-> FALSE,
     row |-> CdRowInit,
     open_buy |-> FALSE, open_sell |-> FALSE,
     was_open_buy |-> FALSE, was_open_sell |-> FALSE]

CdInit ==
    \E a \in CdBars, b \in CdBars : td_cd = CdIdle(a.low, a.high, b.low, b.high)
CdInitOne == td_cd = CdIdle(1, 1, 1, 1)

\* `if buy_setup_completed and i >= 2:`
CountdownArmedMut(completed, i) == i >= 2
CountdownArmed(completed, i) == completed /\ i >= 2

\* One side at one row: the setup flag of the row, the locals before; the
\* locals after, and what is written in the row.  `hit` is the side's price
\* test (close <= low two rows back, or close >= high two rows back).
CdSide(setup_complete, completed, countdown, i, hit) ==
    LET completed1 == setup_complete \/ completed
        countdown1 == IF setup_complete THEN 0 ELSE countdown
    IN  IF CountdownArmed(completed1, i) /\ hit
        THEN LET c == countdown1 + 1 IN
             IF c >= CountdownTarget
             THEN [completed |-> FALSE, countdown |-> 0, count |-> c, complete |-> TRUE]
             ELSE [completed |-> completed1, countdown |-> c, count |-> c, complete |-> FALSE]
        ELSE [completed |-> completed1, countdown |-> countdown1, count |-> 0,
              complete |-> FALSE]

\* The body of the loop at row i.
CdBar(b) ==
    /\ td_cd.pc = "loop"
    /\ td_cd.i < MaxCdBars
    /\ LET buy == CdSide(b.td_setup_buy_complete, td_cd.buy_setup_completed,
                         td_cd.buy_countdown, td_cd.i, b.close <= td_cd.low2)
           sell == CdSide(b.td_setup_sell_complete, td_cd.sell_setup_completed,
                          td_cd.sell_countdown, td_cd.i, b.close >= td_cd.high2)
       IN td_cd' =
            [pc |-> "loop", i |-> td_cd.i + 1,
             low2 |-> td_cd.low1, high2 |-> td_cd.high1,
             low1 |-> b.low, high1 |-> b.high,
             buy_countdown |-> buy.countdown, sell_countdown |-> sell.countdown,
             buy_setup_completed |-> buy.completed,
             sell_setup_completed |-> sell.completed,
             row |-> [td_setup_buy_complete |-> b.td_setup_buy_complete,
                      td_setup_sell_complete |-> b.td_setup_sell_complete,
                      td_countdown_buy_count |-> buy.count,
                      td_countdown_sell_count |-> sell.count,
                      td_countdown_buy_complete |-> buy.complete,
                      td_countdown_sell_complete |-> sell.complete],
             open_buy |-> (b.td_setup_buy_complete \/ td_cd.open_buy) /\ ~buy.complete,
             open_sell |-> (b.td_setup_sell_complete \/ td_cd.open_sell) /\ ~sell.complete,
             was_open_buy |-> td_cd.open_buy,
             was_open_sell |-> td_cd.open_sell]

CdLoop == \E b \in CdBars : CdBar(b)

\* i has reached len(df): `return df`.
CdReturn ==
    /\ td_cd.pc = "loop"
    /\ td_cd' = [td_cd EXCEPT !.pc = "returned"]

CdNext == CdLoop \/ CdReturn


(***************************************************************************)
(*     ASYNC RATE-LIMIT DISPATCH AROUND call_next  (src/app/middleware.py) *)
(***************************************************************************)

MaxMwReq == 2
MwReqs == 1..MaxMwReq

\* What call_next does: returns the downstream response, or raises what the
\* downstream raised, an HTTPException or any other exception.
Downstream == {"response", "http_exception", "error"}

\* calls: the calls of call_next so far; result: what dispatch returned or
\* raised.
MwNew == [pc |-> "new", calls |-> 0, result |-> "none"]
MwInit == mw = [r \in MwReqs |-> MwNew]

\* dispatch begins: _should_rate_limit.
MwEnter(r, req) ==
    /\ mw[r].pc = "new"
    /\ mw' = [mw EXCEPT ![r].pc = IF ShouldRateLimit(req) THEN "limited" ELSE "plain"]

\* An excluded path: `return await call_next(request)`.
MwPlain(r, out) ==
    /\ mw[r].pc = "plain"
    /\ mw' = [mw EXCEPT ![r] = [pc |-> "done", calls |-> @.calls + 1, result |-> out]]

\* is_allowed: a refused request raises the 429, which `except HTTPException`
\* re-raises.
MwCheck(r, allowed) ==
    /\ mw[r].pc = "limited"
    /\ mw' = [mw EXCEPT ![r] = IF allowed THEN [@ EXCEPT !.pc = "try"]
                                ELSE [@ EXCEPT !.pc = "done", !.result = "429"]]

\* `response = await call_next(request)` inside the try: the response is
\* returned with its headers; an HTTPException is re-raised; any other
\* exception goes to `except Exception`.
MwTry(r, out) ==
    /\ mw[r].pc = "try"
    /\ mw' = [mw EXCEPT ![r] =
                 IF out = "error"
                 THEN [@ EXCEPT !.pc = "except", !.calls = @ + 1]
                 ELSE [pc |-> "done", calls |-> @.calls + 1, result |-> out]]

\* `except Exception`: `return await call_next(request)`.
MwExcept(r, out) ==
    /\ mw[r].pc = "except"
    /\ mw' = [mw EXCEPT ![r] = [pc |-> "done", calls |-> @.calls + 1, result |-> out]]

MwNext ==
    \E r \in MwReqs :
       \/ \E req \in RlRequests : MwEnter(r, req)
       \/ \E allowed \in BOOLEAN : MwCheck(r, allowed)
       \/ \E out \in Downstream : MwPlain(r, out) \/ MwTry(r, out) \/ MwExcept(r, out)


(***************************************************************************)
(*             ASYNC MIDDLEWARE CHAIN  (src/app/middleware.py)             *)
(***************************************************************************)

\* The settings setup_middleware reads: enable_rate_limit, cors_origins not
\* empty, allowed_hosts given and other than ["*"].
ChainSettings == [enable_rate_limit : BOOLEAN, cors_origins : BOOLEAN, allowed_hosts : BOOLEAN]

\* setup_middleware: its add_middleware statements, in the order written, with
\* the setting each depends on ("" when unconditional).
SetupStatements ==
    << [cls |-> "ErrorHandlingMiddleware", when |-> ""],
       [cls |-> "SecurityHeadersMiddleware", when |-> ""],
       [cls |-> "RequestLoggingMiddleware", when |-> ""],
       [cls |-> "RateLimitMiddleware", when |-> "enable_rate_limit"],
       [cls |-> "RequestSizeLimitMiddleware", when |-> ""],
       [cls |-> "HealthCheckMiddleware", when |-> ""],
       [cls |-> "CORSMiddleware", when |-> "cors_origins"],
       [cls |-> "TrustedHostMiddleware", when |-> "allowed_hosts"],
       [cls |-> "GZipMiddleware", when |-> ""] >>

StatementRuns(settings, st) ==
    CASE st.when = "enable_rate_limit" -> settings.enable_rate_limit
      [] st.when = "cors_origins" -> settings.cors_origins
      [] st.when = "allowed_hosts" -> settings.allowed_hosts
      [] OTHER -> TRUE

\* app.add_middleware(cls): the framework puts the class at the head of
\* user_middleware, and builds the stack with the head outermost.
add_middleware(user_middleware, cls) == <<cls>> \o user_middleware

\* The middlewares that may answer a request themselves, without calling the
\* next layer.
MayAnswer ==
    {"RateLimitMiddleware", "RequestSizeLimitMiddleware", "HealthCheckMiddleware",
     "CORSMiddleware", "TrustedHostMiddleware"}

\* next: the statement of setup_middleware to run; user_middleware: the
\* application's list; entered: the layers the request has entered, in order.
ChainIdle(settings) ==
    [pc |-> "setup", settings |-> settings, next |-> 1, user_middleware |-> <<>>,
     entered |-> <<>>]
ChainInit == \E settings \in ChainSettings : chain = ChainIdle(settings)
ChainInitOne ==
    chain = ChainIdle([enable_rate_limit |-> TRUE, cors_origins |-> TRUE,
                       allowed_hosts |-> FALSE])

\* The next statement of setup_middleware.
ChainAdd ==
    /\ chain.pc = "setup"
    /\ chain.next <= Len(SetupStatements)
    /\ LET st == SetupStatements[chain.next] IN
       chain' = [chain EXCEPT
                   !.next = @ + 1,
                   !.user_middleware =
                       IF StatementRuns(chain.settings, st)
                       THEN add_middleware(@, st.cls) ELSE @]

\* setup_middleware has returned; a request arrives.
ChainRequest ==
    /\ chain.pc = "setup"
    /\ chain.next > Len(SetupStatements)
    /\ chain' = [chain EXCEPT !.pc = "request"]

\* The request enters the next layer of the stack.
ChainEnter ==
    /\ chain.pc = "request"
    /\ Len(chain.entered) < Len(chain.user_middleware)
    /\ chain' = [chain EXCEPT
                   !.entered = Append(@, chain.user_middleware[Len(@) + 1])]

\* The layer entered last answers the request itself.
ChainAnswer ==
    /\ chain.pc = "request"
    /\ chain.entered # <<>>
    /\ chain.entered[Len(chain.entered)] \in MayAnswer
    /\ chain' = [chain EXCEPT !.pc = "answered"]

\* Past the last layer: the route handler.
ChainHandler ==
    /\ chain.pc = "request"
    /\ Len(chain.entered) = Len(chain.user_middleware)
    /\ chain' = [chain EXCEPT !.pc = "handled"]

ChainNext == ChainAdd \/ ChainRequest \/ ChainEnter \/ ChainAnswer \/ ChainHandler

(***************************************************************************)
(*                            SPECIFICATIONS                               *)
(***************************************************************************)

vars == <<syncVars, favVars, dailyVars, rateVars, wsVars, sseVars, taVars, tdSeqVars, integrityVars, wsReplyVars, schedVars, retryVars, incrVars, ntsVars, cdVars, mwVars, chainVars>>

Init ==
    /\ SyncInit /\ FavInit /\ DailyInit /\ RateInit /\ WsInit /\ SseInit
    /\ TdSetupInitEmpty /\ TdSeqInitEmpty /\ IntegrityInitOne /\ WsReplyInit
    /\ SchedInit /\ RetryInitOne /\ IncrInitOne /\ NtsInitOne /\ CdInitOne
    /\ MwInit /\ ChainInitOne

Next ==
    \/ SyncNext /\ UNCHANGED <<favVars, dailyVars, rateVars, wsVars, sseVars, taVars, tdSeqVars, integrityVars, wsReplyVars, schedVars, retryVars, incrVars, ntsVars, cdVars, mwVars, chainVars>>
    \/ FavNext /\ UNCHANGED <<syncVars, dailyVars, rateVars, wsVars, sseVars, taVars, tdSeqVars, integrityVars, wsReplyVars, schedVars, retryVars, incrVars, ntsVars, cdVars, mwVars, chainVars>>
    \/ DailyNext /\ UNCHANGED <<syncVars, favVars, rateVars, wsVars, sseVars, taVars, tdSeqVars, integrityVars, wsReplyVars, schedVars, retryVars, incrVars, ntsVars, cdVars, mwVars, chainVars>>
    \/ RateNext /\ UNCHANGED <<syncVars, favVars, dailyVars, wsVars, sseVars, taVars, tdSeqVars, integrityVars, wsReplyVars, schedVars, retryVars, incrVars, ntsVars, cdVars, mwVars, chainVars>>
    \/ WsNext /\ UNCHANGED <<syncVars, favVars, dailyVars, rateVars, sseVars, taVars, tdSeqVars, integrityVars, wsReplyVars, schedVars, retryVars, incrVars, ntsVars, cdVars, mwVars, chainVars>>
    \/ SseNext /\ UNCHANGED <<syncVars, favVars, dailyVars, rateVars, wsVars, taVars, tdSeqVars, integrityVars, wsReplyVars, schedVars, retryVars, incrVars, ntsVars, cdVars, mwVars, chainVars>>
    \/ TdSetupNext /\ UNCHANGED <<syncVars, favVars, dailyVars, rateVars, wsVars, sseVars, tdSeqVars, integrityVars, wsReplyVars, schedVars, retryVars, incrVars, ntsVars, cdVars, mwVars, chainVars>>
    \/ TdSeqNext /\ UNCHANGED <<syncVars, favVars, dailyVars, rateVars, wsVars, sseVars, taVars, integrityVars, wsReplyVars, schedVars, retryVars, incrVars, ntsVars, cdVars, mwVars, chainVars>>
    \/ IntegrityNext /\ UNCHANGED <<syncVars, favVars, dailyVars, rateVars, wsVars, sseVars, taVars, tdSeqVars, wsReplyVars, schedVars, retryVars, incrVars, ntsVars, cdVars, mwVars, chainVars>>
    \/ WsCtlNext /\ UNCHANGED <<syncVars, favVars, dailyVars, rateVars, sseVars, taVars, tdSeqVars, integrityVars, schedVars, retryVars, incrVars, ntsVars, cdVars, mwVars, chainVars>>
    \/ SchedNext /\ UNCHANGED <<syncVars, favVars, dailyVars, rateVars, wsVars, sseVars, taVars, tdSeqVars, integrityVars, wsReplyVars, retryVars, incrVars, ntsVars, cdVars, mwVars, chainVars>>
    \/ RetryNext /\ UNCHANGED <<syncVars, favVars, dailyVars, rateVars, wsVars, sseVars, taVars, tdSeqVars, integrityVars, wsReplyVars, schedVars, incrVars, ntsVars, cdVars, mwVars, chainVars>>
    \/ IncrNext /\ UNCHANGED <<syncVars, favVars, dailyVars, rateVars, wsVars, sseVars, taVars, tdSeqVars, integrityVars, wsReplyVars, schedVars, retryVars, ntsVars, cdVars, mwVars, chainVars>>
    \/ RateFaultNext /\ UNCHANGED <<syncVars, favVars, dailyVars, wsVars, sseVars, taVars, tdSeqVars, integrityVars, wsReplyVars, schedVars, retryVars, incrVars, ntsVars, cdVars, mwVars, chainVars>>
    \/ NtsNext /\ UNCHANGED <<syncVars, favVars, dailyVars, rateVars, wsVars, sseVars, taVars, tdSeqVars, integrityVars, wsReplyVars, schedVars, retryVars, incrVars, cdVars, mwVars, chainVars>>
    \/ CdNext /\ UNCHANGED <<syncVars, favVars, dailyVars, rateVars, wsVars, sseVars, taVars, tdSeqVars, integrityVars, wsReplyVars, schedVars, retryVars, incrVars, ntsVars, mwVars, chainVars>>
    \/ MwNext /\ UNCHANGED <<syncVars, favVars, dailyVars, rateVars, wsVars, sseVars, taVars, tdSeqVars, integrityVars, wsReplyVars, schedVars, retryVars, incrVars, ntsVars, cdVars, chainVars>>
    \/ ChainNext /\ UNCHANGED <<syncVars, favVars, dailyVars, rateVars, wsVars, sseVars, taVars, tdSeqVars, integrityVars, wsReplyVars, schedVars, retryVars, incrVars, ntsVars, cdVars, mwVars>>

Spec == Init /\ [][Next]_vars

\* The WebSocket service alone.
InitWs ==
    /\ SyncInit /\ FavInit /\ DailyInit /\ RateInit /\ WsInitCodes /\ SseInit
    /\ TdSetupInitEmpty /\ TdSeqInitEmpty /\ IntegrityInitOne /\ WsReplyInit
    /\ SchedInit /\ RetryInitOne /\ IncrInitOne /\ NtsInitOne /\ CdInitOne
    /\ MwInit /\ ChainInitOne
SpecWs ==
    InitWs /\ [][WsQuotesNext /\ UNCHANGED <<syncVars, favVars, dailyVars, rateVars, sseVars, taVars, tdSeqVars, integrityVars, wsReplyVars, schedVars, retryVars, incrVars, ntsVars, cdVars, mwVars, chainVars>>]_vars

\* The Legacy full sync alone.
SpecSync ==
    Init /\ [][SyncNext /\ UNCHANGED <<favVars, dailyVars, rateVars, wsVars, sseVars, taVars, tdSeqVars, integrityVars, wsReplyVars, schedVars, retryVars, incrVars, ntsVars, cdVars, mwVars, chainVars>>]_vars

\* The Legacy favorites endpoint alone.
SpecFav ==
    Init /\ [][FavNext /\ UNCHANGED <<syncVars, dailyVars, rateVars, wsVars, sseVars, taVars, tdSeqVars, integrityVars, wsReplyVars, schedVars, retryVars, incrVars, ntsVars, cdVars, mwVars, chainVars>>]_vars

\* The Legacy daily-quote sync alone.
SpecDaily ==
    Init /\ [][DailyNext /\ UNCHANGED <<syncVars, favVars, rateVars, wsVars, sseVars, taVars, tdSeqVars, integrityVars, wsReplyVars, schedVars, retryVars, incrVars, ntsVars, cdVars, mwVars, chainVars>>]_vars

\* The rate limiter, default configuration, requests handled one at a time.
SpecRateSeq ==
    Init /\ [][RateSeqNext /\ UNCHANGED <<syncVars, favVars, dailyVars, wsVars, sseVars, taVars, tdSeqVars, integrityVars, wsReplyVars, schedVars, retryVars, incrVars, ntsVars, cdVars, mwVars, chainVars>>]_vars

\* The rate limiter, requests handled concurrently (one cache round-trip per step).
InitRate ==
    /\ SyncInit /\ FavInit /\ DailyInit /\ RateInitCfg /\ WsInit /\ SseInit
    /\ TdSetupInitEmpty /\ TdSeqInitEmpty /\ IntegrityInitOne /\ WsReplyInit
    /\ SchedInit /\ RetryInitOne /\ IncrInitOne /\ NtsInitOne /\ CdInitOne
    /\ MwInit /\ ChainInitOne
SpecRate ==
    InitRate /\ [][RateNext /\ UNCHANGED <<syncVars, favVars, dailyVars, wsVars, sseVars, taVars, tdSeqVars, integrityVars, wsReplyVars, schedVars, retryVars, incrVars, ntsVars, cdVars, mwVars, chainVars>>]_vars

\* The progress stream beside the full sync.
SpecSse ==
    Init /\ [][SyncSseNext /\ UNCHANGED <<favVars, dailyVars, rateVars, wsVars, taVars, tdSeqVars, integrityVars, wsReplyVars, schedVars, retryVars, incrVars, ntsVars, cdVars, mwVars, chainVars>>]_vars

\* The nine-turn Setup detector alone, over the frames of TdShapes.
InitTdSetup ==
    /\ SyncInit /\ FavInit /\ DailyInit /\ RateInit /\ WsInit /\ SseInit
    /\ TdSetupInit /\ TdSeqInitEmpty /\ IntegrityInitOne /\ WsReplyInit
    /\ SchedInit /\ RetryInitOne /\ IncrInitOne /\ NtsInitOne /\ CdInitOne
    /\ MwInit /\ ChainInitOne
SpecTdSetup ==
    InitTdSetup /\ [][TdSetupNext /\ UNCHANGED <<syncVars, favVars, dailyVars, rateVars, wsVars, sseVars, tdSeqVars, integrityVars, wsReplyVars, schedVars, retryVars, incrVars, ntsVars, cdVars, mwVars, chainVars>>]_vars

\* The simplified nine-turn detector alone, over the lists of TdSeqShapes.
InitTdSeq ==
    /\ SyncInit /\ FavInit /\ DailyInit /\ RateInit /\ WsInit /\ SseInit
    /\ TdSetupInitEmpty /\ TdSeqInit /\ IntegrityInitOne /\ WsReplyInit
    /\ SchedInit /\ RetryInitOne /\ IncrInitOne /\ NtsInitOne /\ CdInitOne
    /\ MwInit /\ ChainInitOne
SpecTdSeq ==
    InitTdSeq /\ [][TdSeqNext /\ UNCHANGED <<syncVars, favVars, dailyVars, rateVars, wsVars, sseVars, taVars, integrityVars, wsReplyVars, schedVars, retryVars, incrVars, ntsVars, cdVars, mwVars, chainVars>>]_vars

\* The integrity check alone, over the databases of CheckDays.
InitIntegrity ==
    /\ SyncInit /\ FavInit /\ DailyInit /\ RateInit /\ WsInit /\ SseInit
    /\ TdSetupInitEmpty /\ TdSeqInitEmpty /\ IntegrityInit /\ WsReplyInit
    /\ SchedInit /\ RetryInitOne /\ IncrInitOne /\ NtsInitOne /\ CdInitOne
    /\ MwInit /\ ChainInitOne
SpecIntegrity ==
    InitIntegrity /\ [][IntegrityNext /\ UNCHANGED <<syncVars, favVars, dailyVars, rateVars, wsVars, sseVars, taVars, tdSeqVars, wsReplyVars, schedVars, retryVars, incrVars, ntsVars, cdVars, mwVars, chainVars>>]_vars

\* The WebSocket endpoint with its replies.
InitWsCtl ==
    /\ SyncInit /\ FavInit /\ DailyInit /\ RateInit /\ WsInitCodes /\ SseInit
    /\ TdSetupInitEmpty /\ TdSeqInitEmpty /\ IntegrityInitOne /\ WsReplyInit
    /\ SchedInit /\ RetryInitOne /\ IncrInitOne /\ NtsInitOne /\ CdInitOne
    /\ MwInit /\ ChainInitOne
SpecWsCtl ==
    InitWsCtl /\ [][WsCtlNext /\ UNCHANGED <<syncVars, favVars, dailyVars, rateVars, sseVars, taVars, tdSeqVars, integrityVars, schedVars, retryVars, incrVars, ntsVars, cdVars, mwVars, chainVars>>]_vars

\* The scheduler module alone.
SpecSched ==
    Init /\ [][SchedNext /\ UNCHANGED <<syncVars, favVars, dailyVars, rateVars, wsVars, sseVars, taVars, tdSeqVars, integrityVars, wsReplyVars, retryVars, incrVars, ntsVars, cdVars, mwVars, chainVars>>]_vars

\* The guarded vendor call alone, over the vendor behaviours of VendorScripts.
InitRetry ==
    /\ SyncInit /\ FavInit /\ DailyInit /\ RateInit /\ WsInit /\ SseInit
    /\ TdSetupInitEmpty /\ TdSeqInitEmpty /\ IntegrityInitOne /\ WsReplyInit
    /\ SchedInit /\ RetryInit /\ IncrInitOne /\ NtsInitOne /\ CdInitOne
    /\ MwInit /\ ChainInitOne
SpecRetry ==
    InitRetry /\ [][RetryNext /\ UNCHANGED <<syncVars, favVars, dailyVars, rateVars, wsVars, sseVars, taVars, tdSeqVars, integrityVars, wsReplyVars, schedVars, incrVars, ntsVars, cdVars, mwVars, chainVars>>]_vars

\* The incremental per-security sync alone.
InitIncr ==
    /\ SyncInit /\ FavInit /\ DailyInit /\ RateInit /\ WsInit /\ SseInit
    /\ TdSetupInitEmpty /\ TdSeqInitEmpty /\ IntegrityInitOne /\ WsReplyInit
    /\ SchedInit /\ RetryInitOne /\ IncrInit /\ NtsInitOne /\ CdInitOne
    /\ MwInit /\ ChainInitOne
SpecIncr ==
    InitIncr /\ [][IncrNext /\ UNCHANGED <<syncVars, favVars, dailyVars, rateVars, wsVars, sseVars, taVars, tdSeqVars, integrityVars, wsReplyVars, schedVars, retryVars, ntsVars, cdVars, mwVars, chainVars>>]_vars

\* The rate limiter over a cache store whose commands may fail.
InitRateFault ==
    /\ SyncInit /\ FavInit /\ DailyInit /\ RateInitCfg /\ WsInit /\ SseInit
    /\ TdSetupInitEmpty /\ TdSeqInitEmpty /\ IntegrityInitOne /\ WsReplyInit
    /\ SchedInit /\ RetryInitOne /\ IncrInitOne /\ NtsInitOne /\ CdInitOne
    /\ MwInit /\ ChainInitOne
SpecRateFault ==
    InitRateFault /\ [][RateFaultNext /\ UNCHANGED <<syncVars, favVars, dailyVars, wsVars, sseVars, taVars, tdSeqVars, integrityVars, wsReplyVars, schedVars, retryVars, incrVars, ntsVars, cdVars, mwVars, chainVars>>]_vars

\* The nine-turn signal refresh of one security alone.
InitNts ==
    /\ SyncInit /\ FavInit /\ DailyInit /\ RateInit /\ WsInit /\ SseInit
    /\ TdSetupInitEmpty /\ TdSeqInitEmpty /\ IntegrityInitOne /\ WsReplyInit
    /\ SchedInit /\ RetryInitOne /\ IncrInitOne /\ NtsInit /\ CdInitOne
    /\ MwInit /\ ChainInitOne
SpecNts ==
    InitNts /\ [][NtsNext /\ UNCHANGED <<syncVars, favVars, dailyVars, rateVars, wsVars, sseVars, taVars, tdSeqVars, integrityVars, wsReplyVars, schedVars, retryVars, incrVars, cdVars, mwVars, chainVars>>]_vars

\* The nine-turn Countdown alone, over frames drawn row by row.
InitTdCountdown ==
    /\ SyncInit /\ FavInit /\ DailyInit /\ RateInit /\ WsInit /\ SseInit
    /\ TdSetupInitEmpty /\ TdSeqInitEmpty /\ IntegrityInitOne /\ WsReplyInit
    /\ SchedInit /\ RetryInitOne /\ IncrInitOne /\ NtsInitOne /\ CdInit
    /\ MwInit /\ ChainInitOne
SpecTdCountdown ==
    InitTdCountdown /\ [][CdNext /\ UNCHANGED <<syncVars, favVars, dailyVars, rateVars, wsVars, sseVars, taVars, tdSeqVars, integrityVars, wsReplyVars, schedVars, retryVars, incrVars, ntsVars, mwVars, chainVars>>]_vars

\* The rate-limit dispatch around the downstream handler.
SpecMw ==
    Init /\ [][MwNext /\ UNCHANGED <<syncVars, favVars, dailyVars, rateVars, wsVars, sseVars, taVars, tdSeqVars, integrityVars, wsReplyVars, schedVars, retryVars, incrVars, ntsVars, cdVars, chainVars>>]_vars

\* setup_middleware and a request through the stack it builds.
InitChain ==
    /\ SyncInit /\ FavInit /\ DailyInit /\ RateInit /\ WsInit /\ SseInit
    /\ TdSetupInitEmpty /\ TdSeqInitEmpty /\ IntegrityInitOne /\ WsReplyInit
    /\ SchedInit /\ RetryInitOne /\ IncrInitOne /\ NtsInitOne /\ CdInitOne
    /\ MwInit /\ ChainInit
SpecChain ==
    InitChain /\ [][ChainNext /\ UNCHANGED <<syncVars, favVars, dailyVars, rateVars, wsVars, sseVars, taVars, tdSeqVars, integrityVars, wsReplyVars, schedVars, retryVars, incrVars, ntsVars, cdVars, mwVars>>]_vars

(***************************************************************************)
(*                               CLAIMS                                    *)
(***************************************************************************)

\* C1: at most one background sweep exists at any time, a sweep existing
\* from the acceptance of its request until its finally branch has run.
C1_AtMostOneSweep ==
    Cardinality({t \in SyncReqs : SweepRunning(t)}) <= 1

C3_FavoritesUnique ==
    /\ \A x, y \in favorite_stocks : x.ts_code = y.ts_code => x = y
    /\ \A r \in FavReqs :
         favReq[r].pc = "done" =>
           /\ favReq[r].status = 200 =>
                Cardinality({row \in favorite_stocks :
                               row.ts_code = favReq[r].body.ts_code}) = 1
           /\ (/\ favReq[r].body.json
               /\ favReq[r].body.ts_code \in DOMAIN StockBasicInfo
               /\ ~favReq[r].overlap)
              => favReq[r].status = IF favReq[r].present THEN 409 ELSE 200

\* C3 witness: the same code added twice, one call after the other: 200, then
\* 409, one row.
C3_Witness ==
    \E r1, r2 \in FavReqs :
       /\ r1 # r2
       /\ favReq[r1].pc = "done" /\ favReq[r2].pc = "done"
       /\ favReq[r1].body.ts_code = "000001.SZ" /\ favReq[r2].body.ts_code = "000001.SZ"
       /\ ~favReq[r1].overlap /\ ~favReq[r2].overlap
       /\ favReq[r1].status = 200 /\ favReq[r2].status = 409
       /\ favReq[r2].message = "already_saved"
       /\ Cardinality({row \in favorite_stocks : row.ts_code = "000001.SZ"}) = 1

C5_DisconnectTearsDown ==
    \A c \in Conns :
       Disconnected(c) =>
          /\ c \notin DOMAIN subscriptions
          /\ \A k \in DOMAIN stock_subscribers : c \notin stock_subscribers[k]
          /\ c \notin market_subscribers
          /\ c \notin nine_turn_subscribers

\* C6: a broadcast in which a send has failed is not aborted with subscribers
\* that were in the set from its start, and still are, left unsent.
C6_FailedSendKeepsBroadcast ==
    ~(rt.pc = "failed" /\ rt.disconnected # {} /\ rt.missed # {})

C8_SyncIdempotent ==
    \A k \in DailyKeys :
       LET rows == {row \in daily_data : row.ts_code = k[1] /\ row.trade_date = k[2]}
       IN  IF daily_log.key[k].runs = 0
           THEN rows = {}
           ELSE /\ Cardinality(rows) = 1
                /\ \A row \in rows : row.close = daily_log.key[k].last

\* C8 witness: a pair synced twice with different vendor values holds one row
\* with the second value.
C8_Witness ==
    \E k \in DailyKeys :
       /\ daily_log.key[k].runs = 2
       /\ daily_log.key[k].prev = 10
       /\ daily_log.key[k].last = 11
       /\ \E row \in daily_data :
            /\ row.ts_code = k[1] /\ row.trade_date = k[2] /\ row.close = 11
            /\ \A other \in daily_data :
                 (other.ts_code = k[1] /\ other.trade_date = k[2]) => other = row

\* C9: a client whose counter is at the ceiling has a window that expires:
\* its key carries a TTL, so that the refusals end when the TTL runs out.
C9_LimitedClientWindowExpires ==
    \A k \in RlKeys : rl_store[k].val >= rl_limit => rl_store[k].ttl

\* C11: the progress stream does not end while a sweep is at work.
C11_StreamOutlastsSweep == sse.pc = "ended" => sse.cut = {}

\* C10: a well-formed add-favorite request that is not served (the code is
\* already saved, or is no listed security) is answered with a 4xx status and
\* a message, never a 5xx.
C10_BusinessRule4xx ==
    \A r \in FavReqs :
       (/\ favReq[r].pc = "done"
        /\ favReq[r].body.json
        /\ favReq[r].body.ts_code # ""
        /\ favReq[r].status # 200)
       => (favReq[r].status \in 400..499 /\ favReq[r].message # "")

\* The frames of C12: close[i] < close[i-4] at the nine bars 4 .. 12, and
\* at bar 13 as well ("the condition continues to hold").
TdNineLower ==
    /\ td_setup.pc \in {"loop", "returned"}
    /\ Len(td_setup.df) > 13
    /\ \A i \in 4..13 : Loc(td_setup.df, i).close < Loc(td_setup.df, i - 4).close

\* C12 as stated: buy-setup-complete at exactly the 9th bar (bar 12), and
\* the buy counter is 0 on the following bar (bar 13) though the condition
\* still holds there.
C12_ResetOnFollowingBar ==
    (TdNineLower /\ td_setup.pc = "returned") =>
        /\ \A i \in 0..12 : Loc(td_setup.td_setup_buy_complete, i) <=> i = 12
        /\ Loc(td_setup.td_setup_buy_count, 13) = 0
        /\ td_setup.buy_count = 0

\* C12, amended: buy-setup-complete at exactly the 9th bar (bar 12), which
\* counts 9 and leaves the counter at 0; the following bar, where the
\* condition still holds, starts a new count at 1.
C12_ResetAtNinthBar ==
    TdNineLower =>
        /\ td_setup.i > 12 =>
              /\ \A i \in 0..12 :
                    Loc(td_setup.td_setup_buy_complete, i) <=> i = 12
              /\ Loc(td_setup.td_setup_buy_count, 12) = 9
        /\ td_setup.i = 13 => td_setup.buy_count = 0
        /\ td_setup.i > 13 =>
              /\ Loc(td_setup.td_setup_buy_count, 13) = 1
              /\ ~Loc(td_setup.td_setup_buy_complete, 13)

C12_Witness == TdNineLower /\ td_setup.pc = "returned"

\* The call of C13 has returned: closes [10, 11, ..., 19].
TdSeqTenRising ==
    /\ td_seq.pc = "returned"
    /\ td_seq.closes = <<10, 11, 12, 13, 14, 15, 16, 17, 18, 19>>

\* C13 as stated: for the closes [10, 11, ..., 19] the simplified detector
\* returns a buy count of 5.
C13_TenRisingGivesFive == TdSeqTenRising => td_seq.result = Some(5)

\* C13, amended: for the closes [10, 11, ..., 19] the simplified detector
\* returns a buy count of 6, one for each of the bars 4 .. 9.
C13_TenRisingGivesSix ==
    TdSeqTenRising =>
        /\ td_seq.result = Some(6)
        /\ td_seq.buy_sequence =
               <<None, None, None, None,
                 Some(1), Some(2), Some(3), Some(4), Some(5), Some(6)>>

C13_Witness == TdSeqTenRising /\ td_seq.result # None

InSeq(x, s) == \E k \in DOMAIN s : s[k] = x

\* C14: of a returned report, a date with no stored rows is in
\* missing_dates and the report is not complete; a date whose stored rows are
\* fewer than 80% of the expected count is incomplete; a date whose stored
\* rows are 80% of the expected count or more (and not zero) is neither
\* missing nor incomplete, and a report of such dates only is complete.
C14_IntegrityClassification ==
    integrity.pc = "returned" =>
        /\ \A d \in DOMAIN integrity.days :
              LET stored == StoredTotal(integrity.days[d])
                  expected == integrity.days[d].expected
              IN  /\ stored = 0 =>
                        /\ InSeq(d, integrity.missing_dates)
                        /\ ~integrity.is_complete
                  /\ (stored # 0 /\ stored * 10 < expected * 8) =>
                        /\ InSeq(d, integrity.incomplete_data)
                        /\ ~integrity.is_complete
                  /\ (stored # 0 /\ stored * 10 >= expected * 8) =>
                        /\ ~InSeq(d, integrity.missing_dates)
                        /\ ~InSeq(d, integrity.incomplete_data)
        /\ (\A d \in DOMAIN integrity.days :
                LET stored == StoredTotal(integrity.days[d])
                IN  stored # 0 /\ stored * 10 >= integrity.days[d].expected * 8)
           => integrity.is_complete

\* The acknowledgment of a control message: the subscription confirmation
\* naming the action and the topic, the pong, the stats.
AckOf(c, m) ==
    IF m.type = "subscription" THEN Msg(c, "subscription", m.action, m.target, m.code)
    ELSE IF m.type = "ping" THEN Msg(c, "pong", "", "", NoCode)
    ELSE Msg(c, "stats", "", "", NoCode)

\* C15: a control message (subscribe or unsubscribe of a security, of the
\* market topic, of the nine-turn topic, ping, get_stats) handled on a
\* connection whose client is there is answered with its acknowledgment,
\* sent to that connection.
C15_ControlMessageAcknowledged ==
    (ws_reply.to \in Conns /\ ws_conn[ws_reply.to] = "open") =>
        /\ ws_reply.msg \in WsMessages
        /\ ws_reply.sent = {AckOf(ws_reply.to, ws_reply.msg)}

\* An unsubscribe of the market topic by a live client that was not
\* subscribed to it has been answered.
C15_Witness ==
    /\ ws_reply.to \in Conns
    /\ ws_conn[ws_reply.to] = "open"
    /\ ws_reply.msg = SubMsg("unsubscribe", "market", NoCode)
    /\ ws_reply.sent # {}
    /\ MarketTopic \notin subscriptions[ws_reply.to]

\* C16: whatever the calls so far, one StockScheduler at most has been
\* created; and a start_scheduler() that found the scheduler running has
\* left the registered jobs and the loop threads as they were.
C16_SchedulerSingleton ==
    /\ sched.created <= 1
    /\ (sched.last.op = "start" /\ sched.last.was_running) =>
          /\ sched.jobs = sched.last.jobs
          /\ sched.spawned = sched.last.spawned
          /\ sched.jobs = JobsPerStart

C16_Witness ==
    /\ sched.last.op = "start"
    /\ sched.last.was_running
    /\ sched.calls >= 3
    /\ sched.created = 1

\* C17: an invocation of the wrapper calls the vendor at most max_retries
\* (3) times; what it returns is the result of the first call that
\* succeeded; and when every attempt fails it raises, after the last attempt.
C17_RetryAtMostThree ==
    /\ retry.calls <= max_retries
    /\ retry.pc = "returned" =>
          /\ retry.script[retry.calls] = "ok"
          /\ \A k \in 1..(retry.calls - 1) : retry.script[k] # "ok"
          /\ retry.result = Some(retry.calls)
    /\ retry.pc = "raised" =>
          /\ retry.calls = max_retries
          /\ \A k \in 1..max_retries : retry.script[k] # "ok"
    /\ (retry.calls = max_retries /\ retry.script[max_retries] # "ok") =>
          /\ retry.pc \in {"loop", "raised"}
          /\ retry.pc = "loop" => retry.attempt = max_retries

\* Three rate-limit answers: the wrapper has raised from below its loop.
C17_Witness ==
    /\ retry.pc = "raised"
    /\ retry.calls = max_retries
    /\ \A k \in 1..max_retries : retry.script[k] = "rate_limit"

\* The day after each day of the calendar, written out.
DayAfter ==
    [x \in Calendar |->
        IF x = 20240227 THEN 20240228
        ELSE IF x = 20240228 THEN 20240229
        ELSE IF x = 20240229 THEN 20240301
        ELSE x + 1]

\* C18: a run that found a latest stored date d asks the vendor for nothing
\* but the window from the day after d to today, and only when the day
\* after d is before today; when it is today or later the run returns 0
\* having asked the vendor nothing and saved nothing.
C18_IncrementalWindow ==
    (incr.last_date # None /\ incr.pc \in {"fetched", "returned"}) =>
        LET d == CHOOSE x \in incr.last_date : TRUE
        IN  IF DayAfter[d] >= incr.today
            THEN /\ incr.requests = <<>>
                 /\ incr.saved = {}
                 /\ incr.ret = Some(0)
            ELSE /\ incr.requests =
                        <<[start_date |-> DayAfter[d], end_date |-> incr.today]>>
                 /\ \A x \in incr.saved : DayAfter[d] <= x /\ x <= incr.today

\* A run on 2 March that found 28 February stored has asked for 29 February
\* to 2 March and saved those days.
C18_Witness ==
    /\ incr.pc = "returned"
    /\ incr.last_date = Some(20240228)
    /\ incr.today = 20240302
    /\ incr.requests = <<[start_date |-> 20240229, end_date |-> 20240302]>>
    /\ incr.saved = {20240229, 20240301, 20240302}

\* C19: a request whose rate-limit check found no cache client, or caught
\* a failed cache command, is on its way to call_next: it is not among the
\* requests being answered 429.
C19_LimiterFailsOpen ==
    \A s \in RlSlots :
        rlReq[s].op \in {"no_client", "failed"} => rlReq[s].pc = "usage"

\* A request of a client already at the ceiling, let through after a failed
\* command.
C19_Witness ==
    \E s \in RlSlots :
        /\ rlReq[s].op = "failed"
        /\ rlReq[s].pc = "usage"
        /\ rl_store[rlReq[s].key].val >= rl_limit

\* C20: within one window the requests of one client that were let through
\* are no more than the ceiling, however the concurrent requests interleave.
C20_AllowedWithinCeiling ==
    \A k \in RlKeys : rl_hist[k].allowed <= rl_limit

\* C21: the registry's two indices agree.  A connection is in a security's
\* subscriber set exactly when its own subscriptions hold that security's
\* topic, and likewise for the market and the nine-turn sets; and every id in
\* a subscriber set is a registered connection.  Stated for the runs whose
\* ts_code values are all JSON strings.
C21_IndicesAgree ==
    ws_codes \subseteq StrCodes =>
    /\ \A c \in active_connections :
          /\ \A k \in WsCodes :
                StockMember(stock_subscribers, c, k)
                    <=> StockTopic(k) \in subscriptions[c]
          /\ c \in market_subscribers <=> MarketTopic \in subscriptions[c]
          /\ c \in nine_turn_subscribers <=> NineTurnTopic \in subscriptions[c]
    /\ \A k \in DOMAIN stock_subscribers : stock_subscribers[k] \subseteq active_connections
    /\ market_subscribers \subseteq active_connections
    /\ nine_turn_subscribers \subseteq active_connections

C23_SweepStartsClean ==
    \A t \in SyncReqs :
       (/\ sweep[t].pc \in {"dates", "daily", "moneyflow", "basic", "integrity", "complete"}
        /\ \A u \in SyncReqs \ {t} : sweep[u].pc \in {"none", "done"})
       => /\ sync_progress.success = "unset"
          /\ sync_progress.message = 0
          /\ sync_progress.results = 0

\* C24: a progress stream that has ended has emitted a snapshot in which
\* is_syncing is false.  (A stream that has emitted one with is_syncing true
\* and has ended was open when the sweep finished: it ends only on reading
\* the flag as false.)
C24_StreamShowsCompletion ==
    sse.pc = "ended" => FALSE \in sse.emitted

\* C25: after the signal refresh of a security with at least 13 days of
\* history, its stored signal rows are exactly the recent qualifying signals
\* of this run.
C25_SignalsReplaced ==
    (nts.pc = "done" /\ nts.hist_len >= MinHistory) => nts.stored = nts.found

\* C26: whatever the starts and stops so far, at most one loop thread is
\* alive and no job is registered twice (the jobs of one start at most are
\* registered).
C26_OneLoopThread ==
    /\ sched.alive <= 1
    /\ sched.jobs <= JobsPerStart

\* C27: in every row the countdown writes, for either side: a count is
\* written only if the side's setup completes in this row or has completed
\* since the side's last countdown completion; the count is between 1 and 13
\* and starts from 1 at the first count after a setup completion; the row is
\* marked complete exactly when the count is 13, and the side's counter is
\* then back at 0 with no setup completion left open.
C27_CountdownGated ==
    td_cd.i > 2 =>
       /\ td_cd.row.td_countdown_buy_count > 0 =>
             /\ td_cd.row.td_setup_buy_complete \/ td_cd.was_open_buy
             /\ td_cd.row.td_countdown_buy_count <= CountdownTarget
             /\ td_cd.row.td_setup_buy_complete => td_cd.row.td_countdown_buy_count = 1
       /\ td_cd.row.td_countdown_buy_complete
             <=> td_cd.row.td_countdown_buy_count = CountdownTarget
       /\ td_cd.row.td_countdown_buy_complete =>
             td_cd.buy_countdown = 0 /\ ~td_cd.buy_setup_completed
       /\ td_cd.row.td_countdown_sell_count > 0 =>
             /\ td_cd.row.td_setup_sell_complete \/ td_cd.was_open_sell
             /\ td_cd.row.td_countdown_sell_count <= CountdownTarget
             /\ td_cd.row.td_setup_sell_complete => td_cd.row.td_countdown_sell_count = 1
       /\ td_cd.row.td_countdown_sell_complete
             <=> td_cd.row.td_countdown_sell_count = CountdownTarget
       /\ td_cd.row.td_countdown_sell_complete =>
             td_cd.sell_countdown = 0 /\ ~td_cd.sell_setup_completed

C27_Witness ==
    /\ td_cd.pc = "returned"
    /\ td_cd.row.td_countdown_buy_complete
    /\ td_cd.row.td_countdown_buy_count = CountdownTarget
    /\ td_cd.was_open_buy
    /\ ~td_cd.open_buy

\* A registered connection subscribed to some security, by either index: its
\* id is in a security's subscriber set, or its own subscriptions hold a
\* security's topic.
SubscribedToStock(c) ==
    /\ c \in active_connections
    /\ \/ \E k \in DOMAIN stock_subscribers : c \in stock_subscribers[k]
       \/ \E k \in WsCodes : StockTopic(k) \in subscriptions[c]

C29_CallNextAtMostOnce ==
    \A r \in MwReqs : mw[r].calls <= 1

\* The order of the chain as stated, outermost first.
StatedOrder ==
    << "ErrorHandlingMiddleware", "SecurityHeadersMiddleware", "RequestLoggingMiddleware",
       "RateLimitMiddleware", "RequestSizeLimitMiddleware", "CORSMiddleware",
       "TrustedHostMiddleware", "GZipMiddleware" >>
StatedPos(cls) == CHOOSE i \in 1..Len(StatedOrder) : StatedOrder[i] = cls
Stated == {StatedOrder[i] : i \in 1..Len(StatedOrder)}

\* C30: a request enters the layers of the chain in the stated order: error
\* translation first, and of any two stated layers it has entered, the one
\* stated first was entered first.
C30_ChainOrder ==
    /\ chain.entered # <<>> => chain.entered[1] = "ErrorHandlingMiddleware"
    /\ \A i, j \in 1..Len(chain.entered) :
          (i < j /\ chain.entered[i] \in Stated /\ chain.entered[j] \in Stated)
             => StatedPos(chain.entered[i]) < StatedPos(chain.entered[j])

=============================================================================
